---- MODULE Spec2Model ----
(***************************************************************************)
(* Model of backend/ws_handler.py: one VoiceSession, the message loop of   *)
(* handle_voice_websocket, and the pipeline tasks (_auto_greet,            *)
(* _process_utterance) the loop creates with asyncio.create_task.          *)
(*                                                                         *)
(* Scheduling is asyncio's: one thread, the loop and the tasks interleave  *)
(* only where a coroutine really suspends.  The loop suspends in           *)
(* websocket.receive() and in `await self._processing_task` of             *)
(* _interrupt_ai; a task suspends at each backend call and at the sends of *)
(* the audio and perf events.  Every other send_event is taken to complete *)
(* without suspending.                                                     *)
(*                                                                         *)
(* Time: _state_entered_at and _playback_ended_at are kept as the elapsed  *)
(* time since they were set (state_elapsed in seconds, playback_elapsed in *)
(* milliseconds), advanced by the Tick actions and saturating just above   *)
(* the deadlines they are compared with.  The audio buffer is kept as its   *)
(* length in bytes, which is all the session reads of it, counted up to    *)
(* MIN_AUDIO_BYTES, the one value it is compared with.  _chunk_count only  *)
(* drives logging and is left out.                                         *)
(*                                                                         *)
(* The input is bounded by how many times the caller starts to speak       *)
(* (utterances_left) and by how long an utterance and a silence last       *)
(* (WithinBounds); Spec is the session under every peer and backend        *)
(* behaviour that the code foresees, SpecFaults adds the exceptions it     *)
(* does not foresee and the messages it cannot decode, SpecLong is the     *)
(* long conversation that fills the history, SpecLive is Spec with the     *)
(* event loop's scheduling as fairness (a pending receive times out, a     *)
(* suspended handler and an awaited backend call are resumed, time         *)
(* passes), and SpecTruncate is _smart_truncate of                         *)
(* services/streaming_service.py on its own.                               *)
(***************************************************************************)
EXTENDS Integers, Sequences, FiniteSets, TLC

\* ---- VoiceSession.__init__ parameters ----
SPEECH_THRESHOLD == 200
SILENCE_DURATION_MS == 1000
MIN_SPEECH_DURATION_MS == 300
FRAME_DURATION_MS == 256
MIN_AUDIO_BYTES == 8192
BARGE_IN_THRESHOLD == 500
MIN_BARGE_IN_FRAMES == 3
PLAYBACK_COOLDOWN_MS == 500
WATCHDOG_TIMEOUT_S == 30
GREETING_TIMEOUT_S == 120
MAX_HISTORY_ENTRIES == 10

\* ---- bounds of the model ----
MaxSpeechFrames == 2
MaxSilenceFrames == 4
MaxTasks == 2
MaxUtterances == 1

\* ---- SessionState ----
GREETING == "greeting"
LISTENING == "listening"
USER_SPEAKING == "user_speaking"
PROCESSING == "processing"
AI_SPEAKING == "ai_speaking"
SessionState == {GREETING, LISTENING, USER_SPEAKING, PROCESSING, AI_SPEAKING}

\* ---- inputs ----
\* A frame is its RMS (what _calculate_rms returns for it) and its length in
\* bytes.  The RMS values sit on both sides of the two thresholds.  A full
\* frame is 4096 samples of SampleBytes each; the short ones are the shortest
\* message with that RMS: no sample at all (RMS 0.0), or one sample.
SampleBytes == 2
FullFrameBytes == 4096 * SampleBytes
RmsValues == {SPEECH_THRESHOLD, BARGE_IN_THRESHOLD, BARGE_IN_THRESHOLD + 1}
Frames ==
    [rms : RmsValues, bytes : {FullFrameBytes}]
      \cup [rms : {0}, bytes : {0}]
      \cup [rms : {BARGE_IN_THRESHOLD, BARGE_IN_THRESHOLD + 1}, bytes : {SampleBytes}]
NoFrame == [rms |-> 0, bytes |-> 0]

VARIABLES
    state,              \* self._state
    state_elapsed,      \* seconds since self._state_entered_at
    audio_buffer,       \* len(self._audio_buffer), counted up to MIN_AUDIO_BYTES
    silence_frames,     \* self._silence_frames
    speech_frames,      \* self._speech_frames
    is_speaking,        \* self._is_speaking
    barge_in_frames,    \* self._barge_in_frames
    playback_elapsed,   \* ms since self._playback_ended_at; -1 while it is 0.0
    history,            \* self.conversation_history, as the sequence of roles
    is_active,          \* self.is_active
    processing_task,    \* self._processing_task: a task slot, 0 for None
    tasks,              \* the tasks created so far that matter: slot -> record
    loop_pc,            \* where handle_voice_websocket is suspended
    pending,            \* the frame handle_audio_chunk holds across _interrupt_ai
    utterances_left,    \* how many more times the caller starts to speak (the
                        \* model's bound on the input)
    step,               \* the last step, for observation only: the VAD's answer,
                        \* and the old state and the trigger of its last
                        \* _set_state call
    text,               \* the text _smart_truncate is called with, as the
                        \* sequence of its characters
    limit,              \* the limit it is called with
    tts_text            \* what it returned; empty before the call

sessVars == <<state, state_elapsed, audio_buffer, silence_frames, speech_frames,
              is_speaking, barge_in_frames, playback_elapsed, history, is_active>>
vars == <<state, state_elapsed, audio_buffer, silence_frames, speech_frames,
          is_speaking, barge_in_frames, playback_elapsed, history, is_active,
          processing_task, tasks, loop_pc, pending, utterances_left, step,
          text, limit, tts_text>>
ttsVars == <<text, limit, tts_text>>

\* The session's fields as one record, so that the methods compose; events is
\* what the step has sent so far, context and reply are the rag_context and
\* the full_response of the turn as the step leaves them ("unset" when the
\* step does not assign them).
Sess ==
    [state |-> state, state_elapsed |-> state_elapsed,
     audio_buffer |-> audio_buffer, silence_frames |-> silence_frames,
     speech_frames |-> speech_frames, is_speaking |-> is_speaking,
     barge_in_frames |-> barge_in_frames, playback_elapsed |-> playback_elapsed,
     history |-> history, is_active |-> is_active,
     vad |-> "none", from |-> "none", trigger |-> "none", events |-> <<>>,
     context |-> "unset", reply |-> "unset"]

\* The session after a step is the record s that the step's handlers came to.
\* An action binds that record with \E over a one-element set, so that it is
\* computed once in the step.
Commit(s) ==
    /\ state' = s.state
    /\ state_elapsed' = s.state_elapsed
    /\ audio_buffer' = s.audio_buffer
    /\ silence_frames' = s.silence_frames
    /\ speech_frames' = s.speech_frames
    /\ is_speaking' = s.is_speaking
    /\ barge_in_frames' = s.barge_in_frames
    /\ playback_elapsed' = s.playback_elapsed
    /\ history' = s.history
    /\ is_active' = s.is_active

Observe(s) == [vad |-> s.vad, from |-> s.from, trigger |-> s.trigger]
NoStep == [vad |-> "none", from |-> "none", trigger |-> "none"]

\* bytearray.extend, on the length as the model keeps it.
Extend(len, f) ==
    IF len + f.bytes >= MIN_AUDIO_BYTES THEN MIN_AUDIO_BYTES ELSE len + f.bytes

\* ---- VoiceSession._set_state ----
\* The state is replaced and the entry time restarted, whatever the old state.
SetState(s, new_state, trigger) ==
    [s EXCEPT !.state = new_state,
              !.state_elapsed = 0,
              !.from = s.state,
              !.trigger = trigger]

\* ---- VoiceSession.send_event ----
\* The event is handed to the socket; what the model keeps of it is its type
\* (with the stage of a status, the role of a transcript, the flag of a vad)
\* and what the session held at the call.
At(s) ==
    [state |-> s.state, audio_buffer |-> s.audio_buffer,
     is_speaking |-> s.is_speaking, speech_frames |-> s.speech_frames,
     silence_frames |-> s.silence_frames]

Send(s, type) ==
    [s EXCEPT !.events = Append(@, [type |-> type, at |-> At(s)])]

\* ---- VoiceSession._detect_speech ----
\* Variants of _detect_speech with one line of it forgotten; the VAD claims
\* below must tell each of them from the method.
\* Line 165 (self._is_speaking = True) forgotten.
DetectSpeechNoLatch(s, f) ==
    IF f.rms > SPEECH_THRESHOLD
    THEN LET s1 == [s EXCEPT !.silence_frames = 0, !.speech_frames = @ + 1]
         IN IF ~s.is_speaking
            THEN [s |-> s1, result |-> "speech_start"]
            ELSE [s |-> s1, result |-> "speech_continue"]
    ELSE LET s1 == [s EXCEPT !.silence_frames = @ + 1]
             silence_ms == s1.silence_frames * FRAME_DURATION_MS
         IN IF s.is_speaking /\ silence_ms >= SILENCE_DURATION_MS
            THEN LET speech_ms == s.speech_frames * FRAME_DURATION_MS
                     s2 == [s1 EXCEPT !.is_speaking = FALSE,
                                      !.speech_frames = 0,
                                      !.silence_frames = 0]
                 IN IF speech_ms >= MIN_SPEECH_DURATION_MS
                    THEN [s |-> s2, result |-> "speech_end"]
                    ELSE [s |-> [s2 EXCEPT !.audio_buffer = 0],
                          result |-> "silence"]
            ELSE IF ~s.is_speaking
                 THEN [s |-> s1, result |-> "silence"]
                 ELSE [s |-> s1, result |-> "speech_continue"]

\* Line 161 (self._silence_frames = 0) forgotten.
DetectSpeechNoSilenceReset(s, f) ==
    IF f.rms > SPEECH_THRESHOLD
    THEN LET s1 == [s EXCEPT !.speech_frames = @ + 1]
         IN IF ~s.is_speaking
            THEN [s |-> [s1 EXCEPT !.is_speaking = TRUE], result |-> "speech_start"]
            ELSE [s |-> s1, result |-> "speech_continue"]
    ELSE LET s1 == [s EXCEPT !.silence_frames = @ + 1]
             silence_ms == s1.silence_frames * FRAME_DURATION_MS
         IN IF s.is_speaking /\ silence_ms >= SILENCE_DURATION_MS
            THEN LET speech_ms == s.speech_frames * FRAME_DURATION_MS
                     s2 == [s1 EXCEPT !.is_speaking = FALSE,
                                      !.speech_frames = 0,
                                      !.silence_frames = 0]
                 IN IF speech_ms >= MIN_SPEECH_DURATION_MS
                    THEN [s |-> s2, result |-> "speech_end"]
                    ELSE [s |-> [s2 EXCEPT !.audio_buffer = 0],
                          result |-> "silence"]
            ELSE IF ~s.is_speaking
                 THEN [s |-> s1, result |-> "silence"]
                 ELSE [s |-> s1, result |-> "speech_continue"]

\* Line 185 (self._audio_buffer.clear()) forgotten.
DetectSpeechKeepsShort(s, f) ==
    IF f.rms > SPEECH_THRESHOLD
    THEN LET s1 == [s EXCEPT !.silence_frames = 0, !.speech_frames = @ + 1]
         IN IF ~s.is_speaking
            THEN [s |-> [s1 EXCEPT !.is_speaking = TRUE], result |-> "speech_start"]
            ELSE [s |-> s1, result |-> "speech_continue"]
    ELSE LET s1 == [s EXCEPT !.silence_frames = @ + 1]
             silence_ms == s1.silence_frames * FRAME_DURATION_MS
         IN IF s.is_speaking /\ silence_ms >= SILENCE_DURATION_MS
            THEN LET speech_ms == s.speech_frames * FRAME_DURATION_MS
                     s2 == [s1 EXCEPT !.is_speaking = FALSE,
                                      !.speech_frames = 0,
                                      !.silence_frames = 0]
                 IN IF speech_ms >= MIN_SPEECH_DURATION_MS
                    THEN [s |-> s2, result |-> "speech_end"]
                    ELSE [s |-> s2, result |-> "silence"]
            ELSE IF ~s.is_speaking
                 THEN [s |-> s1, result |-> "silence"]
                 ELSE [s |-> s1, result |-> "speech_continue"]

\* Returns the session after the call and the VAD's answer.
DetectSpeech(s, f) ==
    IF f.rms > SPEECH_THRESHOLD
    THEN LET s1 == [s EXCEPT !.silence_frames = 0, !.speech_frames = @ + 1]
         IN IF ~s.is_speaking
            THEN [s |-> [s1 EXCEPT !.is_speaking = TRUE], result |-> "speech_start"]
            ELSE [s |-> s1, result |-> "speech_continue"]
    ELSE LET s1 == [s EXCEPT !.silence_frames = @ + 1]
             silence_ms == s1.silence_frames * FRAME_DURATION_MS
         IN IF s.is_speaking /\ silence_ms >= SILENCE_DURATION_MS
            THEN LET speech_ms == s.speech_frames * FRAME_DURATION_MS
                     s2 == [s1 EXCEPT !.is_speaking = FALSE,
                                      !.speech_frames = 0,
                                      !.silence_frames = 0]
                 IN IF speech_ms >= MIN_SPEECH_DURATION_MS
                    THEN [s |-> s2, result |-> "speech_end"]
                    ELSE [s |-> [s2 EXCEPT !.audio_buffer = 0],
                          result |-> "silence"]
            ELSE IF ~s.is_speaking
                 THEN [s |-> s1, result |-> "silence"]
                 ELSE [s |-> s1, result |-> "speech_continue"]

\* ---- VoiceSession.handle_audio_chunk ----
\* Lines 216-231: the barge-in counter; fire says _interrupt_ai is called.
BargeInCheck(s, f) ==
    IF f.rms > BARGE_IN_THRESHOLD
    THEN IF s.barge_in_frames + 1 >= MIN_BARGE_IN_FRAMES
         THEN [s |-> [s EXCEPT !.barge_in_frames = 0], fire |-> TRUE]
         ELSE [s |-> [s EXCEPT !.barge_in_frames = @ + 1], fire |-> FALSE]
    ELSE [s |-> [s EXCEPT !.barge_in_frames = 0], fire |-> FALSE]

\* BargeInFinish with vad(speaking=true) sent first, before the buffer, the
\* flags and the state are set.
BargeInFinishVadFirst(s, f) ==
    LET s1 == Send(Send(Send(s, "interrupt"), "status_listening"), "vad_true")
    IN SetState([s1 EXCEPT !.audio_buffer = Extend(0, f),
                           !.is_speaking = TRUE,
                           !.speech_frames = 1,
                           !.silence_frames = 0],
                USER_SPEAKING, "barge_in")

\* BargeInFinish with line 227 (self._silence_frames = 0) forgotten.
BargeInFinishKeepsSilence(s, f) ==
    LET s1 == Send(Send(s, "interrupt"), "status_listening")
    IN Send(SetState([s1 EXCEPT !.audio_buffer = Extend(0, f),
                                !.is_speaking = TRUE,
                                !.speech_frames = 1],
                     USER_SPEAKING, "barge_in"),
            "vad_true")

\* Lines 301-303 of _interrupt_ai and 222-229: what follows the cancellation
\* of the task, or its skipping when there is none to cancel.
BargeInFinish(s, f) ==
    LET s1 == Send(Send(s, "interrupt"), "status_listening")
    IN Send(SetState([s1 EXCEPT !.audio_buffer = Extend(0, f),
                                !.is_speaking = TRUE,
                                !.speech_frames = 1,
                                !.silence_frames = 0],
                     USER_SPEAKING, "barge_in"),
            "vad_true")

\* Lines 239-242.
InCooldown(s) ==
    /\ s.playback_elapsed >= 0
    /\ s.playback_elapsed < PLAYBACK_COOLDOWN_MS

\* VadBranch without line 262: the end of the utterance is not told to the
\* peer.
VadBranchNoVadFalse(s, f) ==
    LET d == DetectSpeech(s, f)
        r == d.result
        s1 == [d.s EXCEPT !.vad = r]
    IN CASE r = "speech_start" ->
              [s |-> [Send(SetState(s1, USER_SPEAKING, "speech_start"), "vad_true")
                        EXCEPT !.audio_buffer = Extend(0, f)],
               spawn |-> FALSE]
         [] r = "speech_continue" ->
              [s |-> IF s1.is_speaking
                     THEN [s1 EXCEPT !.audio_buffer = Extend(@, f)]
                     ELSE s1,
               spawn |-> FALSE]
         [] r = "speech_end" ->
              LET s2 == s1
              IN IF s2.audio_buffer < MIN_AUDIO_BYTES
                 THEN [s |-> SetState([s2 EXCEPT !.audio_buffer = 0],
                                      LISTENING, "too_short"),
                       spawn |-> FALSE]
                 ELSE [s |-> [SetState(s2, PROCESSING, "speech_end")
                                EXCEPT !.audio_buffer = 0],
                       spawn |-> TRUE]
         [] OTHER -> [s |-> s1, spawn |-> FALSE]

\* VadBranch without lines 265-276: the length of the recording is not
\* looked at.
VadBranchNoByteGate(s, f) ==
    LET d == DetectSpeech(s, f)
        r == d.result
        s1 == [d.s EXCEPT !.vad = r]
    IN CASE r = "speech_start" ->
              [s |-> [Send(SetState(s1, USER_SPEAKING, "speech_start"), "vad_true")
                        EXCEPT !.audio_buffer = Extend(0, f)],
               spawn |-> FALSE]
         [] r = "speech_continue" ->
              [s |-> IF s1.is_speaking
                     THEN [s1 EXCEPT !.audio_buffer = Extend(@, f)]
                     ELSE s1,
               spawn |-> FALSE]
         [] r = "speech_end" ->
              LET s2 == Send(s1, "vad_false")
              IN [s |-> [SetState(s2, PROCESSING, "speech_end")
                           EXCEPT !.audio_buffer = 0],
                  spawn |-> TRUE]
         [] OTHER -> [s |-> s1, spawn |-> FALSE]

\* Lines 248-284: the VAD and the branch on its answer; spawn says a task is
\* created for the buffered utterance.
VadBranch(s, f) ==
    LET d == DetectSpeech(s, f)
        r == d.result
        s1 == [d.s EXCEPT !.vad = r]
    IN CASE r = "speech_start" ->
              [s |-> [Send(SetState(s1, USER_SPEAKING, "speech_start"), "vad_true")
                        EXCEPT !.audio_buffer = Extend(0, f)],
               spawn |-> FALSE]
         [] r = "speech_continue" ->
              [s |-> IF s1.is_speaking
                     THEN [s1 EXCEPT !.audio_buffer = Extend(@, f)]
                     ELSE s1,
               spawn |-> FALSE]
         [] r = "speech_end" ->
              LET s2 == Send(s1, "vad_false")
              IN IF s2.audio_buffer < MIN_AUDIO_BYTES
                 THEN [s |-> SetState([s2 EXCEPT !.audio_buffer = 0],
                                      LISTENING, "too_short"),
                       spawn |-> FALSE]
                 ELSE [s |-> [SetState(s2, PROCESSING, "speech_end")
                                EXCEPT !.audio_buffer = 0],
                       spawn |-> TRUE]
         [] OTHER -> [s |-> s1, spawn |-> FALSE]

\* handle_audio_chunk without lines 234-236: frames received in PROCESSING
\* reach the VAD.
HandleAudioChunkNoProcessingGate(s, f) ==
    IF s.state \in {AI_SPEAKING, GREETING}
    THEN LET b == BargeInCheck(s, f)
         IN [s |-> b.s, spawn |-> FALSE, fire |-> b.fire]
    ELSE IF InCooldown(s)
         THEN [s |-> s, spawn |-> FALSE, fire |-> FALSE]
         ELSE LET v == VadBranch(s, f)
              IN [s |-> v.s, spawn |-> v.spawn, fire |-> FALSE]

\* handle_audio_chunk with GREETING missing from line 204: the frames of the
\* greeting reach the VAD.
HandleAudioChunkVadInGreeting(s, f) ==
    IF s.state = AI_SPEAKING
    THEN LET b == BargeInCheck(s, f)
         IN [s |-> b.s, spawn |-> FALSE, fire |-> b.fire]
    ELSE IF s.state = PROCESSING \/ InCooldown(s)
         THEN [s |-> s, spawn |-> FALSE, fire |-> FALSE]
         ELSE LET v == VadBranch(s, f)
              IN [s |-> v.s, spawn |-> v.spawn, fire |-> FALSE]

\* The whole method but for the suspension in _interrupt_ai: fire says the
\* barge-in branch reached _interrupt_ai, and the rest of it is BargeInFinish.
HandleAudioChunk(s, f) ==
    IF s.state \in {AI_SPEAKING, GREETING}
    THEN LET b == BargeInCheck(s, f)
         IN [s |-> b.s, spawn |-> FALSE, fire |-> b.fire]
    ELSE IF s.state = PROCESSING \/ InCooldown(s)
         THEN [s |-> s, spawn |-> FALSE, fire |-> FALSE]
         ELSE LET v == VadBranch(s, f)
              IN [s |-> v.s, spawn |-> v.spawn, fire |-> FALSE]

\* handle_playback_done with line 314 (self._speech_frames = 0) forgotten.
HandlePlaybackDoneKeepsSpeechFrames(s) ==
    SetState([s EXCEPT !.playback_elapsed = 0,
                       !.barge_in_frames = 0,
                       !.is_speaking = FALSE,
                       !.silence_frames = 0,
                       !.audio_buffer = 0],
             LISTENING, "playback_done")

\* ---- VoiceSession.handle_playback_done ----
HandlePlaybackDone(s) ==
    SetState([s EXCEPT !.playback_elapsed = 0,
                       !.barge_in_frames = 0,
                       !.is_speaking = FALSE,
                       !.speech_frames = 0,
                       !.silence_frames = 0,
                       !.audio_buffer = 0],
             LISTENING, "playback_done")

\* check_watchdog with its two resets left out: it never forces a state.
CheckWatchdogNever(s) == s

\* ---- VoiceSession.check_watchdog ----
CheckWatchdog(s) ==
    IF s.state = AI_SPEAKING
    THEN IF s.state_elapsed > WATCHDOG_TIMEOUT_S
         THEN Send(SetState([s EXCEPT !.playback_elapsed = 0],
                            LISTENING, "watchdog"),
                   "status_listening")
         ELSE s
    ELSE IF s.state = GREETING /\ s.state_elapsed > GREETING_TIMEOUT_S
         THEN Send(SetState(s, LISTENING, "watchdog"), "status_listening")
         ELSE s

\* ---- conversation history ----
\* Lines 475-480 of _process_utterance: the pair, then the cap.
AppendTurnCapped(h) ==
    LET h2 == h \o <<"user", "assistant">>
    IN IF Len(h2) > MAX_HISTORY_ENTRIES
       THEN SubSeq(h2, Len(h2) - MAX_HISTORY_ENTRIES + 1, Len(h2))
       ELSE h2

\* Lines 559-566 of _auto_greet: the pair, and no cap.
AppendGreeting(h) == h \o <<"user", "assistant">>

\* ---- asyncio tasks ----
\* A task is its coroutine (kind), the await it is suspended at (pc) and
\* whether cancel() was called on it and not yet delivered; last, for
\* observation only, is the type of the latest event the run sent.  A slot
\* whose task finished holds NoTask; _processing_task may still name it (a
\* done task).
NoTask == [kind |-> "none", pc |-> "done", cancel |-> FALSE, last |-> "none"]
NewTask(kind) == [kind |-> kind, pc |-> "start", cancel |-> FALSE, last |-> "none"]
Slots == 1..MaxTasks
Live(tk, i) == i \in Slots /\ tk[i].pc # "done"
FreeSlots(tk) == {i \in Slots : ~Live(tk, i)}
FirstFree(tk) == CHOOSE i \in FreeSlots(tk) : \A j \in FreeSlots(tk) : i <= j

\* Task.cancel(): a no-op on a task that is done.
Cancel(tk, i) ==
    IF Live(tk, i) THEN [tk EXCEPT ![i].cancel = TRUE] ELSE tk

\* ---- VoiceSession._process_utterance ----
\* Line 426: the phrase that stands for the reply when the generation raised.
Apology == "apology"

\* _process_utterance with lines 462 and 464 exchanged: the audio event is
\* sent before the state is set to AI_SPEAKING.
ProcessUtteranceAudioFirst(s, pc, o) ==
    CASE pc = "start" ->
           [s |-> Send(s, "status_transcribing"), pc |-> "stt"]
      [] pc = "stt" ->
           IF o = "ok"
           THEN [s |-> Send(Send(s, "transcript_user"), "status_searching"),
                 pc |-> "rag"]
           ELSE [s |-> Send(SetState(s, LISTENING, "pipeline_failed"),
                            "status_listening"),
                 pc |-> "done"]
      [] pc = "rag" ->
           [s |-> Send([s EXCEPT !.context = IF o = "ok" THEN "context" ELSE "none"],
                       "status_thinking"),
            pc |-> "llm"]
      [] pc = "llm" ->
           IF o = "ok" /\ ~s.is_active
           THEN [s |-> s, pc |-> "done"]
           ELSE LET s1 == IF o = "ok" THEN Send(s, "token") ELSE s
                    full_response == CASE o = "ok" -> "reply"
                                       [] o = "empty" -> ""
                                       [] OTHER -> Apology
                IN [s |-> Send(Send([s1 EXCEPT !.reply = full_response],
                                    "transcript_assistant"),
                               "status_speaking"),
                    pc |-> "tts"]
      [] pc = "tts" ->
           IF o = "ok"
           THEN [s |-> SetState(Send(s, "audio"), AI_SPEAKING, "pipeline_audio"),
                 pc |-> "send_audio"]
           ELSE [s |-> s, pc |-> "tts_retry"]
      [] pc = "tts_retry" ->
           IF o = "ok"
           THEN [s |-> SetState(Send(s, "audio"), AI_SPEAKING, "pipeline_audio"),
                 pc |-> "send_audio"]
           ELSE [s |-> Send([Send(SetState(s, LISTENING, "pipeline_failed"),
                                  "status_listening")
                               EXCEPT !.history = AppendTurnCapped(@)],
                            "perf"),
                 pc |-> "send_perf"]
      [] pc = "send_audio" ->
           [s |-> Send([s EXCEPT !.history = AppendTurnCapped(@)], "perf"),
            pc |-> "send_perf"]
      [] OTHER ->
           [s |-> s, pc |-> "done"]

\* _process_utterance without lines 372-375 and 380-384: the turn goes on
\* whatever the transcription gave.
ProcessUtteranceSttUnchecked(s, pc, o) ==
    CASE pc = "start" ->
           [s |-> Send(s, "status_transcribing"), pc |-> "stt"]
      [] pc = "stt" ->
           [s |-> Send(Send(s, "transcript_user"), "status_searching"),
            pc |-> "rag"]
      [] pc = "rag" ->
           [s |-> Send([s EXCEPT !.context = IF o = "ok" THEN "context" ELSE "none"],
                       "status_thinking"),
            pc |-> "llm"]
      [] pc = "llm" ->
           IF o = "ok" /\ ~s.is_active
           THEN [s |-> s, pc |-> "done"]
           ELSE LET s1 == IF o = "ok" THEN Send(s, "token") ELSE s
                    full_response == CASE o = "ok" -> "reply"
                                       [] o = "empty" -> ""
                                       [] OTHER -> Apology
                IN [s |-> Send(Send([s1 EXCEPT !.reply = full_response],
                                    "transcript_assistant"),
                               "status_speaking"),
                    pc |-> "tts"]
      [] pc = "tts" ->
           IF o = "ok"
           THEN [s |-> Send(SetState(s, AI_SPEAKING, "pipeline_audio"), "audio"),
                 pc |-> "send_audio"]
           ELSE [s |-> s, pc |-> "tts_retry"]
      [] pc = "tts_retry" ->
           IF o = "ok"
           THEN [s |-> Send(SetState(s, AI_SPEAKING, "pipeline_audio"), "audio"),
                 pc |-> "send_audio"]
           ELSE [s |-> Send([Send(SetState(s, LISTENING, "pipeline_failed"),
                                  "status_listening")
                               EXCEPT !.history = AppendTurnCapped(@)],
                            "perf"),
                 pc |-> "send_perf"]
      [] pc = "send_audio" ->
           [s |-> Send([s EXCEPT !.history = AppendTurnCapped(@)], "perf"),
            pc |-> "send_perf"]
      [] OTHER ->
           [s |-> s, pc |-> "done"]

\* _process_utterance with the retrieval treated as the transcription is: a
\* search that gives no context ends the turn.
ProcessUtteranceRagAborts(s, pc, o) ==
    CASE pc = "start" ->
           [s |-> Send(s, "status_transcribing"), pc |-> "stt"]
      [] pc = "stt" ->
           IF o = "ok"
           THEN [s |-> Send(Send(s, "transcript_user"), "status_searching"),
                 pc |-> "rag"]
           ELSE [s |-> Send(SetState(s, LISTENING, "pipeline_failed"),
                            "status_listening"),
                 pc |-> "done"]
      [] pc = "rag" ->
           IF o = "ok"
           THEN [s |-> Send([s EXCEPT !.context = "context"], "status_thinking"),
                 pc |-> "llm"]
           ELSE [s |-> Send(SetState(s, LISTENING, "pipeline_failed"),
                            "status_listening"),
                 pc |-> "done"]
      [] pc = "llm" ->
           IF o = "ok" /\ ~s.is_active
           THEN [s |-> s, pc |-> "done"]
           ELSE LET s1 == IF o = "ok" THEN Send(s, "token") ELSE s
                    full_response == CASE o = "ok" -> "reply"
                                       [] o = "empty" -> ""
                                       [] OTHER -> Apology
                IN [s |-> Send(Send([s1 EXCEPT !.reply = full_response],
                                    "transcript_assistant"),
                               "status_speaking"),
                    pc |-> "tts"]
      [] pc = "tts" ->
           IF o = "ok"
           THEN [s |-> Send(SetState(s, AI_SPEAKING, "pipeline_audio"), "audio"),
                 pc |-> "send_audio"]
           ELSE [s |-> s, pc |-> "tts_retry"]
      [] pc = "tts_retry" ->
           IF o = "ok"
           THEN [s |-> Send(SetState(s, AI_SPEAKING, "pipeline_audio"), "audio"),
                 pc |-> "send_audio"]
           ELSE [s |-> Send([Send(SetState(s, LISTENING, "pipeline_failed"),
                                  "status_listening")
                               EXCEPT !.history = AppendTurnCapped(@)],
                            "perf"),
                 pc |-> "send_perf"]
      [] pc = "send_audio" ->
           [s |-> Send([s EXCEPT !.history = AppendTurnCapped(@)], "perf"),
            pc |-> "send_perf"]
      [] OTHER ->
           [s |-> s, pc |-> "done"]

\* _process_utterance with the retry in a loop: a retry that gives no audio
\* is followed by another.
ProcessUtteranceRetriesAgain(s, pc, o) ==
    CASE pc = "start" ->
           [s |-> Send(s, "status_transcribing"), pc |-> "stt"]
      [] pc = "stt" ->
           IF o = "ok"
           THEN [s |-> Send(Send(s, "transcript_user"), "status_searching"),
                 pc |-> "rag"]
           ELSE [s |-> Send(SetState(s, LISTENING, "pipeline_failed"),
                            "status_listening"),
                 pc |-> "done"]
      [] pc = "rag" ->
           [s |-> Send([s EXCEPT !.context = IF o = "ok" THEN "context" ELSE "none"],
                       "status_thinking"),
            pc |-> "llm"]
      [] pc = "llm" ->
           IF o = "ok" /\ ~s.is_active
           THEN [s |-> s, pc |-> "done"]
           ELSE LET s1 == IF o = "ok" THEN Send(s, "token") ELSE s
                    full_response == CASE o = "ok" -> "reply"
                                       [] o = "empty" -> ""
                                       [] OTHER -> Apology
                IN [s |-> Send(Send([s1 EXCEPT !.reply = full_response],
                                    "transcript_assistant"),
                               "status_speaking"),
                    pc |-> "tts"]
      [] pc = "tts" ->
           IF o = "ok"
           THEN [s |-> Send(SetState(s, AI_SPEAKING, "pipeline_audio"), "audio"),
                 pc |-> "send_audio"]
           ELSE [s |-> s, pc |-> "tts_retry"]
      [] pc = "tts_retry" ->
           IF o = "ok"
           THEN [s |-> Send(SetState(s, AI_SPEAKING, "pipeline_audio"), "audio"),
                 pc |-> "send_audio"]
           ELSE [s |-> s, pc |-> "tts_retry"]
      [] pc = "send_audio" ->
           [s |-> Send([s EXCEPT !.history = AppendTurnCapped(@)], "perf"),
            pc |-> "send_perf"]
      [] OTHER ->
           [s |-> s, pc |-> "done"]

\* _process_utterance without line 471: the state is left as it is when both
\* syntheses gave no audio.
ProcessUtteranceKeepsStateOnTtsFailure(s, pc, o) ==
    CASE pc = "start" ->
           [s |-> Send(s, "status_transcribing"), pc |-> "stt"]
      [] pc = "stt" ->
           IF o = "ok"
           THEN [s |-> Send(Send(s, "transcript_user"), "status_searching"),
                 pc |-> "rag"]
           ELSE [s |-> Send(SetState(s, LISTENING, "pipeline_failed"),
                            "status_listening"),
                 pc |-> "done"]
      [] pc = "rag" ->
           [s |-> Send([s EXCEPT !.context = IF o = "ok" THEN "context" ELSE "none"],
                       "status_thinking"),
            pc |-> "llm"]
      [] pc = "llm" ->
           IF o = "ok" /\ ~s.is_active
           THEN [s |-> s, pc |-> "done"]
           ELSE LET s1 == IF o = "ok" THEN Send(s, "token") ELSE s
                    full_response == CASE o = "ok" -> "reply"
                                       [] o = "empty" -> ""
                                       [] OTHER -> Apology
                IN [s |-> Send(Send([s1 EXCEPT !.reply = full_response],
                                    "transcript_assistant"),
                               "status_speaking"),
                    pc |-> "tts"]
      [] pc = "tts" ->
           IF o = "ok"
           THEN [s |-> Send(SetState(s, AI_SPEAKING, "pipeline_audio"), "audio"),
                 pc |-> "send_audio"]
           ELSE [s |-> s, pc |-> "tts_retry"]
      [] pc = "tts_retry" ->
           IF o = "ok"
           THEN [s |-> Send(SetState(s, AI_SPEAKING, "pipeline_audio"), "audio"),
                 pc |-> "send_audio"]
           ELSE [s |-> Send([Send(s, "status_listening")
                               EXCEPT !.history = AppendTurnCapped(@)],
                            "perf"),
                 pc |-> "send_perf"]
      [] pc = "send_audio" ->
           [s |-> Send([s EXCEPT !.history = AppendTurnCapped(@)], "perf"),
            pc |-> "send_perf"]
      [] OTHER ->
           [s |-> s, pc |-> "done"]

\* _process_utterance returning after line 472: a turn whose synthesis failed
\* twice leaves no trace in the history and sends no perf event.
ProcessUtteranceFailureSkipsHistory(s, pc, o) ==
    CASE pc = "start" ->
           [s |-> Send(s, "status_transcribing"), pc |-> "stt"]
      [] pc = "stt" ->
           IF o = "ok"
           THEN [s |-> Send(Send(s, "transcript_user"), "status_searching"),
                 pc |-> "rag"]
           ELSE [s |-> Send(SetState(s, LISTENING, "pipeline_failed"),
                            "status_listening"),
                 pc |-> "done"]
      [] pc = "rag" ->
           [s |-> Send([s EXCEPT !.context = IF o = "ok" THEN "context" ELSE "none"],
                       "status_thinking"),
            pc |-> "llm"]
      [] pc = "llm" ->
           IF o = "ok" /\ ~s.is_active
           THEN [s |-> s, pc |-> "done"]
           ELSE LET s1 == IF o = "ok" THEN Send(s, "token") ELSE s
                    full_response == CASE o = "ok" -> "reply"
                                       [] o = "empty" -> ""
                                       [] OTHER -> Apology
                IN [s |-> Send(Send([s1 EXCEPT !.reply = full_response],
                                    "transcript_assistant"),
                               "status_speaking"),
                    pc |-> "tts"]
      [] pc = "tts" ->
           IF o = "ok"
           THEN [s |-> Send(SetState(s, AI_SPEAKING, "pipeline_audio"), "audio"),
                 pc |-> "send_audio"]
           ELSE [s |-> s, pc |-> "tts_retry"]
      [] pc = "tts_retry" ->
           IF o = "ok"
           THEN [s |-> Send(SetState(s, AI_SPEAKING, "pipeline_audio"), "audio"),
                 pc |-> "send_audio"]
           ELSE [s |-> Send(SetState(s, LISTENING, "pipeline_failed"),
                            "status_listening"),
                 pc |-> "done"]
      [] pc = "send_audio" ->
           [s |-> Send([s EXCEPT !.history = AppendTurnCapped(@)], "perf"),
            pc |-> "send_perf"]
      [] OTHER ->
           [s |-> s, pc |-> "done"]

\* One resumption of the coroutine at pc with the awaited call's outcome o:
\* the session after it and the await it stops at next.  The awaits are those
\* of rest_stt (stt), search_context (rag), the token stream of stream_llm
\* (llm, whose tokens are sent as one token event), rest_tts (tts, tts_retry)
\* and the sends of the audio and perf events.  The outcome is "ok" (a
\* transcript, a context, tokens, audio), "empty" (the call returned and gave
\* nothing: a blank transcript, no context, a stream without a token, no
\* audio) or "failed" (the call timed out, or raised where the stage catches
\* it).
ProcessUtterance(s, pc, o) ==
    CASE pc = "start" ->
           [s |-> Send(s, "status_transcribing"), pc |-> "stt"]
      [] pc = "stt" ->
           IF o = "ok"
           THEN [s |-> Send(Send(s, "transcript_user"), "status_searching"),
                 pc |-> "rag"]
           ELSE [s |-> Send(SetState(s, LISTENING, "pipeline_failed"),
                            "status_listening"),
                 pc |-> "done"]
      [] pc = "rag" ->
           [s |-> Send([s EXCEPT !.context = IF o = "ok" THEN "context" ELSE "none"],
                       "status_thinking"),
            pc |-> "llm"]
      [] pc = "llm" ->
           IF o = "ok" /\ ~s.is_active
           THEN [s |-> s, pc |-> "done"]
           ELSE LET s1 == IF o = "ok" THEN Send(s, "token") ELSE s
                    full_response == CASE o = "ok" -> "reply"
                                       [] o = "empty" -> ""
                                       [] OTHER -> Apology
                IN [s |-> Send(Send([s1 EXCEPT !.reply = full_response],
                                    "transcript_assistant"),
                               "status_speaking"),
                    pc |-> "tts"]
      [] pc = "tts" ->
           IF o = "ok"
           THEN [s |-> Send(SetState(s, AI_SPEAKING, "pipeline_audio"), "audio"),
                 pc |-> "send_audio"]
           ELSE [s |-> s, pc |-> "tts_retry"]
      [] pc = "tts_retry" ->
           IF o = "ok"
           THEN [s |-> Send(SetState(s, AI_SPEAKING, "pipeline_audio"), "audio"),
                 pc |-> "send_audio"]
           ELSE [s |-> Send([Send(SetState(s, LISTENING, "pipeline_failed"),
                                  "status_listening")
                               EXCEPT !.history = AppendTurnCapped(@)],
                            "perf"),
                 pc |-> "send_perf"]
      [] pc = "send_audio" ->
           [s |-> Send([s EXCEPT !.history = AppendTurnCapped(@)], "perf"),
            pc |-> "send_perf"]
      [] OTHER ->
           [s |-> s, pc |-> "done"]

\* The cancellation handler of section 4.4 of the design, which moves to
\* USER_SPEAKING, in place of the one of lines 496-499.
ProcessUtteranceCancelledToSpeaking(s, pc) ==
    IF pc = "start" THEN s ELSE SetState(s, USER_SPEAKING, "cancelled")

\* The cancellation handler leaving the user's half of the turn in the
\* history.
ProcessUtteranceCancelledKeepsUser(s, pc) ==
    IF pc = "start" THEN s
    ELSE SetState([s EXCEPT !.history = Append(@, "user")], LISTENING, "cancelled")

\* Lines 496-499: CancelledError delivered at the await the task is at.  A
\* task cancelled before its first step never runs its body.
ProcessUtteranceCancelled(s, pc) ==
    IF pc = "start" THEN s ELSE SetState(s, LISTENING, "cancelled")

\* Lines 500-504: the call awaited at pc raised an exception that is neither
\* a TimeoutError nor a CancelledError.  The generation and the second
\* synthesis catch it themselves (lines 424-426 and 455-456) and send_event
\* catches what the socket raises (lines 125-126); from the other awaits it
\* reaches the handler of the coroutine.
ProcessUtteranceRaised(s, pc) ==
    IF pc \in {"llm", "tts_retry"}
    THEN ProcessUtterance(s, pc, "failed")
    ELSE IF pc \in {"send_audio", "send_perf"}
         THEN ProcessUtterance(s, pc, "ok")
         ELSE [s |-> Send(Send(SetState(s, LISTENING, "pipeline_error"), "error"),
                          "status_listening"),
               pc |-> "done"]

\* ---- VoiceSession._auto_greet ----
\* The awaits are those of get_business_summary and generate_greeting (llm:
\* nothing is sent or set between the two), rest_tts (tts) and the send of the
\* audio event.
AutoGreet(s, pc, o) ==
    CASE pc = "start" ->
           [s |-> Send(s, "status_thinking"), pc |-> "llm"]
      [] pc = "llm" ->
           [s |-> Send(Send(s, "transcript_assistant"), "status_speaking"),
            pc |-> "tts"]
      [] pc = "tts" ->
           IF o = "ok"
           THEN [s |-> Send(SetState(s, AI_SPEAKING, "greeting_audio"), "audio"),
                 pc |-> "send_audio"]
           ELSE [s |-> [Send(SetState(s, LISTENING, "greeting_failed"),
                             "status_listening")
                          EXCEPT !.history = AppendGreeting(@)],
                 pc |-> "done"]
      [] OTHER ->
           [s |-> [s EXCEPT !.history = AppendGreeting(@)], pc |-> "done"]

\* Lines 571-574: the call awaited at pc raised an exception other than the
\* TimeoutError of generate_greeting; the history is not reached.
AutoGreetRaised(s, pc) ==
    IF pc = "send_audio"
    THEN AutoGreet(s, pc, "ok")
    ELSE [s |-> Send(SetState(s, LISTENING, "greeting_error"), "status_listening"),
          pc |-> "done"]

\* _auto_greet catches Exception only: a CancelledError leaves it at once.
AutoGreetCancelled(s, pc) == s

Outcomes == {"ok", "empty", "failed"}

\* ---- services/streaming_service.py: rest_stt ----
\* Line 36: what SARVAM_API_KEY holds when the environment has no credential.
NoCredential == ""

\* What the transcription backend may answer: a transcript, a refusal (a
\* status other than 200) or nothing in time; a request that carries no
\* credential is refused.
BackendAnswers(key) ==
    IF key = NoCredential THEN {"refused"} ELSE {"transcript", "refused", "timeout"}

\* Lines 481-512: the request is posted with the key as it is, empty or not;
\* called says the backend call was made, outcome is what _process_utterance
\* is resumed with (a refusal, a timeout and an exception all return "").
RestStt(key, answer) ==
    [called |-> TRUE,
     outcome |-> IF answer = "transcript" THEN "ok" ELSE "empty"]

\* ---- services/streaming_service.py: _smart_truncate ----
\* A text is the sequence of its characters; the Telugu danda, one of the
\* four sentence marks, is written "danda".  Positions are Python's: the
\* first character is at 0, and a search that finds nothing gives -1.
Ellipsis == <<".", ".", ".">>

\* str.rfind for a single character.
RFind(t, c) ==
    LET found == {i \in 1..Len(t) : t[i] = c}
    IN IF found = {} THEN -1
       ELSE (CHOOSE i \in found : \A j \in found : j <= i) - 1

\* The slice t[:n], for n >= 0.
Prefix(t, n) == SubSeq(t, 1, IF n < Len(t) THEN n ELSE Len(t))

\* max() of a non-empty set of integers.
Max(S) == CHOOSE x \in S : \A y \in S : y <= x

\* _smart_truncate with >= for > at line 531.
SmartTruncateFromHalf(t, lim) ==
    IF Len(t) <= lim
    THEN t
    ELSE LET truncated == Prefix(t, lim)
             last_period == Max({RFind(truncated, "."), RFind(truncated, "!"),
                                 RFind(truncated, "?"), RFind(truncated, "danda")})
         IN IF last_period >= lim \div 2
            THEN Prefix(truncated, last_period + 1)
            ELSE LET last_space == RFind(truncated, " ")
                 IN IF last_space > lim \div 2
                    THEN Prefix(truncated, last_space) \o Ellipsis
                    ELSE truncated \o Ellipsis

\* Lines 517-539.
SmartTruncate(t, lim) ==
    IF Len(t) <= lim
    THEN t
    ELSE LET truncated == Prefix(t, lim)
             last_period == Max({RFind(truncated, "."), RFind(truncated, "!"),
                                 RFind(truncated, "?"), RFind(truncated, "danda")})
         IN IF last_period > lim \div 2
            THEN Prefix(truncated, last_period + 1)
            ELSE LET last_space == RFind(truncated, " ")
                 IN IF last_space > lim \div 2
                    THEN Prefix(truncated, last_space) \o Ellipsis
                    ELSE truncated \o Ellipsis

\* =========================== the state machine ===========================

\* handle_voice_websocket lines 634-638: the session as constructed, and the
\* greeting task created before the loop starts; the caller is to speak up to
\* n times.
Start(n) ==
    /\ state = GREETING
    /\ state_elapsed = 0
    /\ audio_buffer = 0
    /\ silence_frames = 0
    /\ speech_frames = 0
    /\ is_speaking = FALSE
    /\ barge_in_frames = 0
    /\ playback_elapsed = -1
    /\ history = <<>>
    /\ is_active = TRUE
    /\ processing_task = 1
    /\ tasks = [i \in Slots |-> IF i = 1 THEN NewTask("greet") ELSE NoTask]
    /\ loop_pc = "recv"
    /\ pending = NoFrame
    /\ utterances_left = n
    /\ step = NoStep

\* In the session's specifications _smart_truncate is not looked into.
NoTruncation ==
    /\ text = <<>>
    /\ limit = 0
    /\ tts_text = <<>>

Init == Start(MaxUtterances) /\ NoTruncation

\* The model's bounds on what the session may hold after a step.
WithinBounds(s) ==
    /\ s.speech_frames <= MaxSpeechFrames
    /\ s.silence_frames <= MaxSilenceFrames

\* Lines 643-664 and 683-684: an audio message is received, the watchdog is
\* checked and handle_audio_chunk runs, to its end or to the await of the
\* cancelled task in _interrupt_ai.
RecvAudio(f) ==
    /\ loop_pc = "recv"
    /\ \E r \in {HandleAudioChunk(CheckWatchdog(Sess), f)} :
       \E interrupting \in {r.fire /\ Live(tasks, processing_task)} :
       \E s2 \in {IF r.fire /\ ~interrupting THEN BargeInFinish(r.s, f) ELSE r.s} :
       \E begins \in {r.fire \/ r.s.vad = "speech_start"} :
          /\ WithinBounds(s2)
          /\ begins => utterances_left > 0
          /\ r.spawn => FreeSlots(tasks) # {}
          /\ utterances_left' = IF begins THEN utterances_left - 1
                                ELSE utterances_left
          /\ Commit(s2)
          /\ IF interrupting
             THEN /\ tasks' = Cancel(tasks, processing_task)
                  /\ processing_task' = processing_task
                  /\ loop_pc' = "interrupt"
                  /\ pending' = f
             ELSE /\ tasks' = IF r.spawn
                              THEN [tasks EXCEPT ![FirstFree(tasks)] = NewTask("utterance")]
                              ELSE tasks
                  /\ processing_task' = IF r.spawn THEN FirstFree(tasks)
                                        ELSE processing_task
                  /\ UNCHANGED <<loop_pc, pending>>
          /\ step' = Observe(s2)
    /\ UNCHANGED ttsVars

\* _interrupt_ai lines 296-303 and handle_audio_chunk lines 222-229: the
\* cancelled task has ended, the barge-in completes.
InterruptResume ==
    /\ loop_pc = "interrupt"
    /\ ~Live(tasks, processing_task)
    /\ \E s2 \in {BargeInFinish(Sess, pending)} :
          /\ Commit(s2)
          /\ step' = Observe(s2)
    /\ processing_task' = 0
    /\ loop_pc' = "recv"
    /\ pending' = NoFrame
    /\ UNCHANGED <<tasks, utterances_left>>
    /\ UNCHANGED ttsVars

\* Lines 669-671.
RecvPlaybackDone ==
    /\ loop_pc = "recv"
    /\ \E s2 \in {Send(HandlePlaybackDone(CheckWatchdog(Sess)), "status_listening")} :
          /\ Commit(s2)
          /\ step' = Observe(s2)
    /\ UNCHANGED <<processing_task, tasks, loop_pc, pending, utterances_left>>
    /\ UNCHANGED ttsVars

\* Lines 666-667 and 673-677: config, user_interrupt and pong do nothing of
\* their own; the watchdog check of the cycle still runs.
RecvOther(kind) ==
    /\ loop_pc = "recv"
    /\ \E s2 \in {CheckWatchdog(Sess)} :
          /\ Commit(s2)
          /\ step' = Observe(s2)
    /\ UNCHANGED <<processing_task, tasks, loop_pc, pending, utterances_left>>
    /\ UNCHANGED ttsVars

\* Lines 646-651: no message for 30 s; ping, then the watchdog.
IdleTimeout ==
    /\ loop_pc = "recv"
    /\ \E s2 \in {CheckWatchdog(Send(Sess, "ping"))} :
          /\ Commit(s2)
          /\ step' = Observe(s2)
    /\ UNCHANGED <<processing_task, tasks, loop_pc, pending, utterances_left>>
    /\ UNCHANGED ttsVars

\* Lines 679-681 and 686-696: the end message or a disconnect; the finally
\* block cancels a running task and returns without awaiting it.
EndSession ==
    /\ loop_pc = "recv"
    /\ \E s2 \in {[Sess EXCEPT !.is_active = FALSE]} :
          /\ Commit(s2)
          /\ step' = Observe(s2)
    /\ tasks' = Cancel(tasks, processing_task)
    /\ loop_pc' = "closed"
    /\ UNCHANGED <<processing_task, pending, utterances_left>>
    /\ UNCHANGED ttsVars

\* The messages the loop cannot decode: a text that json.loads rejects (line
\* 657), an audio message whose data b64decode rejects (line 663), and a PCM
\* chunk of an odd number of bytes, three or more, which struct.unpack
\* rejects in _calculate_rms (line 134).
Malformed == {"bad_json", "bad_base64", "odd_pcm"}

\* handle_audio_chunk comes to _calculate_rms, at line 205 or in
\* _detect_speech, unless it drops the chunk first (lines 234-242).
ReachesRms(s) ==
    \/ s.state \in {AI_SPEAKING, GREETING}
    \/ ~(s.state = PROCESSING \/ InCooldown(s))

\* Lines 654-664 and 688-696: a malformed message is received; the watchdog
\* is checked, the exception leaves the while loop and is logged at line 689,
\* and the finally block ends the session.  An odd chunk that is dropped
\* before its RMS is taken raises nothing.
RecvMalformed(kind) ==
    /\ loop_pc = "recv"
    /\ \E w \in {CheckWatchdog(Sess)} :
       \E raises \in {kind # "odd_pcm" \/ ReachesRms(w)} :
       \E s2 \in {IF raises THEN [w EXCEPT !.is_active = FALSE] ELSE w} :
          /\ Commit(s2)
          /\ step' = Observe(s2)
          /\ tasks' = IF raises THEN Cancel(tasks, processing_task) ELSE tasks
          /\ loop_pc' = IF raises THEN "closed" ELSE loop_pc
    /\ UNCHANGED <<processing_task, pending, utterances_left>>
    /\ UNCHANGED ttsVars

\* The outcomes a task can be resumed with: one where its code does not look
\* at it (the first resumption, a send, the greeting's text, which has a
\* default, a pending CancelledError), all three at the token stream, and
\* success or not at the other calls, where nothing and a failure are one
\* branch of the code.
Awaited(tk) ==
    IF tk.cancel \/ tk.pc \in {"start", "send_audio", "send_perf"}
       \/ (tk.kind = "greet" /\ tk.pc = "llm")
    THEN {"ok"}
    ELSE IF tk.pc = "llm" THEN Outcomes ELSE {"ok", "failed"}

\* A task is resumed: with the outcome of the call it awaited, or with the
\* CancelledError of a cancel() called on it.
TaskStep(i, o) ==
    /\ Live(tasks, i)
    /\ \E tk \in {tasks[i]} :
       \E r \in {IF tk.cancel
                 THEN [s |-> IF tk.kind = "greet"
                             THEN AutoGreetCancelled(Sess, tk.pc)
                             ELSE ProcessUtteranceCancelled(Sess, tk.pc),
                       pc |-> "done"]
                 ELSE IF tk.kind = "greet"
                      THEN AutoGreet(Sess, tk.pc, o)
                      ELSE ProcessUtterance(Sess, tk.pc, o)} :
       \E sent \in {r.s.events} :
          /\ Commit(r.s)
          /\ tasks' = [tasks EXCEPT ![i] =
                         IF r.pc = "done" THEN NoTask
                         ELSE [tk EXCEPT !.pc = r.pc,
                                         !.last = IF sent = <<>> THEN @
                                                  ELSE sent[Len(sent)].type]]
          /\ step' = Observe(r.s)
    /\ UNCHANGED <<processing_task, loop_pc, pending, utterances_left>>
    /\ UNCHANGED ttsVars

\* A task is resumed with an exception that the call it awaited raised.  The
\* first resumption of a task awaits nothing, and a cancelled task is resumed
\* with its CancelledError.
TaskRaise(i) ==
    /\ Live(tasks, i)
    /\ tasks[i].pc # "start"
    /\ ~tasks[i].cancel
    /\ \E tk \in {tasks[i]} :
       \E r \in {IF tk.kind = "greet"
                 THEN AutoGreetRaised(Sess, tk.pc)
                 ELSE ProcessUtteranceRaised(Sess, tk.pc)} :
       \E sent \in {r.s.events} :
          /\ Commit(r.s)
          /\ tasks' = [tasks EXCEPT ![i] =
                         IF r.pc = "done" THEN NoTask
                         ELSE [tk EXCEPT !.pc = r.pc,
                                         !.last = IF sent = <<>> THEN @
                                                  ELSE sent[Len(sent)].type]]
          /\ step' = Observe(r.s)
    /\ UNCHANGED <<processing_task, loop_pc, pending, utterances_left>>
    /\ UNCHANGED ttsVars

\* Time passes: the time since the state was entered, as far as the watchdog
\* can tell (up to the state's deadline, then beyond it).
Deadline == IF state = GREETING THEN GREETING_TIMEOUT_S ELSE WATCHDOG_TIMEOUT_S

TickState ==
    /\ loop_pc # "closed"
    /\ state \in {AI_SPEAKING, GREETING}
    /\ state_elapsed <= Deadline
    /\ state_elapsed' = IF state_elapsed < Deadline THEN Deadline ELSE Deadline + 1
    /\ step' = NoStep
    /\ UNCHANGED <<state, audio_buffer, silence_frames, speech_frames,
                   is_speaking, barge_in_frames, playback_elapsed, history,
                   is_active, processing_task, tasks, loop_pc, pending, utterances_left>>
    /\ UNCHANGED ttsVars

\* Time passes: the time since playback ended reaches the cooldown.
TickPlayback ==
    /\ loop_pc # "closed"
    /\ playback_elapsed >= 0
    /\ playback_elapsed < PLAYBACK_COOLDOWN_MS
    /\ playback_elapsed' = PLAYBACK_COOLDOWN_MS
    /\ step' = NoStep
    /\ UNCHANGED <<state, state_elapsed, audio_buffer, silence_frames,
                   speech_frames, is_speaking, barge_in_frames, history,
                   is_active, processing_task, tasks, loop_pc, pending, utterances_left>>
    /\ UNCHANGED ttsVars

Next ==
    \/ \E f \in Frames : RecvAudio(f)
    \/ InterruptResume
    \/ RecvPlaybackDone
    \/ \E kind \in {"config", "user_interrupt", "pong"} : RecvOther(kind)
    \/ IdleTimeout
    \/ EndSession
    \/ \E i \in Slots : \E o \in Awaited(tasks[i]) : TaskStep(i, o)
    \/ TickState
    \/ TickPlayback

Spec == Init /\ [][Next]_vars

\* The session when, besides, a backend call may raise an exception of its
\* own and the peer may send what cannot be decoded.
NextFaults ==
    \/ Next
    \/ \E i \in Slots : TaskRaise(i)
    \/ \E kind \in Malformed : RecvMalformed(kind)

SpecFaults == Init /\ [][NextFaults]_vars

\* The session whose loop keeps cycling, whose clock advances and whose
\* backend calls all come back: the 30 s timeout of receive (line 646) makes
\* a cycle, watchdog check included, as long as the loop is receiving; the
\* await of the cancelled task in _interrupt_ai ends when the task has; a
\* suspended task is resumed, with one of the outcomes of its call.
Fairness ==
    /\ WF_vars(IdleTimeout)
    /\ WF_vars(InterruptResume)
    /\ WF_vars(TickState)
    /\ \A i \in Slots : WF_vars(\E o \in Awaited(tasks[i]) : TaskStep(i, o))

SpecLive == Init /\ [][Next]_vars /\ Fairness

\* A long conversation: the caller speaks as many times as it takes to fill
\* the history, in plain frames (loud or silent), every backend call succeeds
\* and the peer reports the end of each playback.
FillingTurns == MAX_HISTORY_ENTRIES \div 2
LoudFrame == [rms |-> BARGE_IN_THRESHOLD + 1, bytes |-> FullFrameBytes]

InitLong == Start(FillingTurns) /\ NoTruncation

NextLong ==
    \/ \E f \in {LoudFrame, NoFrame} : RecvAudio(f)
    \/ InterruptResume
    \/ RecvPlaybackDone
    \/ \E i \in Slots : TaskStep(i, "ok")
    \/ TickPlayback

SpecLong == InitLong /\ [][NextLong]_vars

\* _smart_truncate on its own: every text of up to MaxTextLen characters, of
\* which a letter, the space and the four sentence marks, and the limits
\* MaxLimit - 1 and MaxLimit, one odd and one even; the session stays as
\* constructed.
MaxLimit == 4
MaxTextLen == MaxLimit + 1
Chars == {"a", " ", ".", "!", "?", "danda"}
Texts == UNION {[1..n -> Chars] : n \in 0..MaxTextLen}

InitTruncate ==
    /\ Start(0)
    /\ text \in Texts
    /\ limit \in {MaxLimit - 1, MaxLimit}
    /\ tts_text = <<>>

\* rest_tts line 551: tts_text = _smart_truncate(text).
SmartTruncateCall ==
    /\ tts_text = <<>>
    /\ tts_text' = SmartTruncate(text, limit)
    /\ UNCHANGED <<state, state_elapsed, audio_buffer, silence_frames,
                   speech_frames, is_speaking, barge_in_frames, playback_elapsed,
                   history, is_active, processing_task, tasks, loop_pc, pending,
                   utterances_left, step, text, limit>>

NextTruncate == SmartTruncateCall

SpecTruncate == InitTruncate /\ [][NextTruncate]_vars

\* ================================ claims =================================

\* The tasks of the session that have begun to run, have not finished and
\* have not been cancelled.
Running ==
    {i \in Slots : Live(tasks, i) /\ tasks[i].pc # "start" /\ ~tasks[i].cancel}

\* C1: at every instant at most one pipeline task of the session (greeting or
\* utterance) is running; a new utterance task is started only when no earlier
\* one is still running or its cancellation was observed.
C1_SingleInFlight == Cardinality(Running) <= 1

\* The rows (from, trigger, to) of the transition table, section 4.1.  The
\* greeting that fails before any audio, which the table has no row for, is
\* counted with GREETING -> LISTENING.
TableRow(from, trigger, to) ==
    \/ from = GREETING /\ trigger = "greeting_audio" /\ to = AI_SPEAKING
    \/ from = GREETING
         /\ trigger \in {"playback_done", "watchdog", "greeting_failed", "greeting_error"}
         /\ to = LISTENING
    \/ from = LISTENING /\ trigger = "speech_start" /\ to = USER_SPEAKING
    \/ from = USER_SPEAKING /\ trigger = "speech_end" /\ to = PROCESSING
    \/ from = USER_SPEAKING /\ trigger = "too_short" /\ to = LISTENING
    \/ from = PROCESSING /\ trigger = "pipeline_audio" /\ to = AI_SPEAKING
    \/ from = PROCESSING /\ trigger \in {"pipeline_failed", "pipeline_error"}
         /\ to = LISTENING
    \/ from = PROCESSING /\ trigger \in {"barge_in", "cancelled"} /\ to = USER_SPEAKING
    \/ from \in {AI_SPEAKING, GREETING} /\ trigger = "barge_in" /\ to = USER_SPEAKING
    \/ from = AI_SPEAKING /\ trigger \in {"playback_done", "watchdog"} /\ to = LISTENING

\* C2: every change of the session state is a row of the transition table;
\* no other change (such as LISTENING or USER_SPEAKING to AI_SPEAKING by a task
\* that finishes late) ever occurs.
C2_OnlyTableRows ==
    (step.trigger # "none" /\ step.from # state)
        => TableRow(step.from, step.trigger, state)

\* C3: an event with no row in the table for the current state is a no-op:
\* playback_done in LISTENING, USER_SPEAKING or PROCESSING, and config, pong
\* or user_interrupt in any state (the watchdog of the cycle not being due),
\* leave the state, the buffer, the VAD counters and the task unchanged.
C3_OutOfTableNoOp ==
    [][(\/ RecvPlaybackDone /\ state \in {LISTENING, USER_SPEAKING, PROCESSING}
        \/ \E kind \in {"config", "user_interrupt", "pong"} :
              RecvOther(kind) /\ CheckWatchdog(Sess) = Sess)
       => UNCHANGED <<state, audio_buffer, silence_frames, speech_frames,
                      is_speaking, processing_task, tasks>>]_vars

C5_AppendOnlyWhileUserSpeaking ==
    (step.vad \in {"speech_start", "speech_continue"} \/ step.trigger = "barge_in")
        => state = USER_SPEAKING

\* C6: right after any change of state that leaves USER_SPEAKING, by whatever
\* cause, the audio buffer is empty.
C6_BufferClearedOnLeave ==
    (step.trigger # "none" /\ step.from = USER_SPEAKING /\ state # USER_SPEAKING)
        => audio_buffer = 0

\* C7: whenever an append to conversation_history has completed, its length
\* is at most MAX_HISTORY_ENTRIES, also when the greeting appends its pair
\* after the turns have filled the history.
C7_HistoryBound == Len(history) <= MAX_HISTORY_ENTRIES

\* C8: speech_start is the VAD's answer exactly on a frame with RMS strictly
\* above SPEECH_THRESHOLD while not speaking; it opens the utterance
\* (speaking becomes true), so no later frame of the utterance yields it, and
\* every frame inside an utterance yields speech_continue unless it ends the
\* utterance.
C8_SpeechStartOnce ==
    [][\A f \in Frames :
         (step'.vad # "none" /\ RecvAudio(f))
           => /\ step'.vad = "speech_start"
                   <=> (f.rms > SPEECH_THRESHOLD /\ ~is_speaking)
              /\ step'.vad = "speech_start" => is_speaking'
              /\ is_speaking => (step'.vad = "speech_continue" \/ ~is_speaking')
              /\ (is_speaking /\ is_speaking') => step'.vad = "speech_continue"]_vars

\* An utterance was opened and a later loud frame of it was answered
\* speech_continue.
C8_Witness ==
    /\ step.vad = "speech_continue"
    /\ is_speaking
    /\ speech_frames >= 2
    /\ silence_frames = 0

\* C9: in an utterance with speech_frames x FRAME_DURATION_MS >=
\* MIN_SPEECH_DURATION_MS, speech_end is the answer exactly on the first of a
\* run of N frames at or below SPEECH_THRESHOLD with N x FRAME_DURATION_MS >=
\* SILENCE_DURATION_MS: silence_frames counts the run (a loud frame restarts
\* it), the window was not reached before, and speech_end closes the utterance
\* so that no later silent frame yields it.
C9_SpeechEndOnce ==
    [][\A f \in Frames :
         (step'.vad # "none" /\ RecvAudio(f))
           => /\ step'.vad = "speech_end"
                   <=> /\ f.rms <= SPEECH_THRESHOLD
                       /\ is_speaking
                       /\ (silence_frames + 1) * FRAME_DURATION_MS >= SILENCE_DURATION_MS
                       /\ speech_frames * FRAME_DURATION_MS >= MIN_SPEECH_DURATION_MS
              /\ step'.vad = "speech_end"
                   => /\ silence_frames * FRAME_DURATION_MS < SILENCE_DURATION_MS
                      /\ ~is_speaking'
                      /\ silence_frames' = 0
                      /\ speech_frames' = 0
              /\ f.rms > SPEECH_THRESHOLD => silence_frames' = 0
              /\ (f.rms <= SPEECH_THRESHOLD /\ is_speaking')
                   => silence_frames' = silence_frames + 1]_vars

\* The fourth silent frame of a long-enough utterance was answered speech_end.
C9_Witness ==
    /\ step.vad = "speech_end"
    /\ ~is_speaking
    /\ silence_frames = 0

\* C10: when the silence window elapses on an utterance with speech_frames x
\* FRAME_DURATION_MS < MIN_SPEECH_DURATION_MS, the VAD answers silence, not
\* speech_end, the audio buffer is emptied and no task is started.
C10_ShortRejected ==
    [][\A f \in Frames :
         (/\ step'.vad # "none"
          /\ f.rms <= SPEECH_THRESHOLD
          /\ is_speaking
          /\ (silence_frames + 1) * FRAME_DURATION_MS >= SILENCE_DURATION_MS
          /\ speech_frames * FRAME_DURATION_MS < MIN_SPEECH_DURATION_MS
          /\ RecvAudio(f))
           => /\ step'.vad = "silence"
              /\ audio_buffer' = 0
              /\ ~is_speaking'
              /\ UNCHANGED <<tasks, processing_task>>]_vars

\* A one-frame utterance was rejected when its silence window elapsed.
C10_Witness ==
    /\ step.vad = "silence"
    /\ silence_frames = 0
    /\ speech_frames = 0
    /\ audio_buffer = 0
    /\ state = USER_SPEAKING

\* C11: an utterance rejected as too short (by its speech duration or by its
\* buffered bytes) takes the session from USER_SPEAKING to LISTENING in the
\* step that rejects it: the session is never in USER_SPEAKING with the
\* speaking flag false.
C11_RejectedGoesToListening ==
    /\ state = USER_SPEAKING => is_speaking
    /\ step.trigger = "too_short" => state = LISTENING

\* The session is in a speaking episode: the states in which frames are only
\* counted towards a barge-in.
Speaking(st) == st \in {AI_SPEAKING, GREETING}

\* C12: a barge-in fires only on a frame received in AI_SPEAKING or GREETING
\* that, with the MIN_BARGE_IN_FRAMES - 1 frames before it, is above
\* BARGE_IN_THRESHOLD, and a count left over from an earlier speaking episode
\* never contributes: the frame that fires is loud and received while
\* speaking, and it is never the first frame of the episode, received right
\* after the step that entered it.
C12_BargeInDebounced ==
    [][\A f \in Frames :
         (HandleAudioChunk(CheckWatchdog(Sess), f).fire /\ RecvAudio(f))
           => /\ Speaking(state)
              /\ f.rms > BARGE_IN_THRESHOLD
              /\ ~(step.trigger # "none" /\ state # step.from
                     /\ ~Speaking(step.from))]_vars

\* The barge-in confirmed by frame f has completed, ev being the events its
\* step sent: interrupt first, vad(speaking=true) last and once, sent when the
\* session already held what it holds after the step.
BargeInCompleted(ev, f) ==
    LET done == [state |-> USER_SPEAKING, audio_buffer |-> Extend(0, f),
                 is_speaking |-> TRUE, speech_frames |-> 1, silence_frames |-> 0]
    IN /\ Len(ev) >= 2
       /\ ev[1].type = "interrupt"
       /\ ev[Len(ev)].type = "vad_true"
       /\ \A k \in 1..(Len(ev) - 1) : ev[k].type # "vad_true"
       /\ ev[Len(ev)].at = done
       /\ At(Sess)' = done
       /\ ~Live(tasks', processing_task')

\* C13: when the MIN_BARGE_IN_FRAMES-th consecutive loud frame arrives in
\* AI_SPEAKING or GREETING, the task in flight, if any, is cancelled and the
\* loop waits for its end before anything is sent or set; then interrupt is
\* sent, then the buffer holds exactly the frame, speaking is true,
\* speech_frames is 1, silence_frames is 0 and the state is USER_SPEAKING, and
\* only then vad(speaking=true) is sent.
C13_BargeInOrder ==
    [][/\ (/\ loop_pc = "recv"
           /\ Speaking(state)
           /\ barge_in_frames + 1 >= MIN_BARGE_IN_FRAMES)
            => \A f \in Frames :
                 LET s == CheckWatchdog(Sess)
                     h == HandleAudioChunk(s, f)
                 IN (/\ f.rms > BARGE_IN_THRESHOLD
                     /\ Speaking(s.state)
                     /\ RecvAudio(f))
                    => IF Live(tasks, processing_task)
                       THEN /\ tasks'[processing_task].cancel
                            /\ loop_pc' = "interrupt"
                            /\ pending' = f
                            /\ h.s.events = <<>>
                            /\ At(Sess)' = At(Sess)
                       ELSE BargeInCompleted(BargeInFinish(h.s, f).events, f)
       /\ InterruptResume
            => BargeInCompleted(BargeInFinish(Sess, pending).events, pending)]_vars

\* A barge-in found a task running, cancelled it, waited for its end and then
\* completed on the frame it had held.
C13_Witness ==
    /\ step.trigger = "barge_in"
    /\ Speaking(step.from)
    /\ processing_task = 0
    /\ At(Sess) = [state |-> USER_SPEAKING, audio_buffer |-> MIN_AUDIO_BYTES,
                    is_speaking |-> TRUE, speech_frames |-> 1, silence_frames |-> 0]

\* C14: a pipeline task (greeting or utterance) cancelled by a barge-in leaves
\* the session in USER_SPEAKING when the barge-in step completes, and one
\* cancelled by the end of the session, at whichever await it had reached,
\* leaves it in LISTENING when the cancellation is delivered.
C14_CancelledFollowUp ==
    [][/\ InterruptResume => state' = USER_SPEAKING
       /\ \A i \in Slots, o \in Outcomes :
            (/\ loop_pc = "closed"
             /\ Live(tasks, i)
             /\ tasks[i].cancel
             /\ tasks[i].pc # "start"
             /\ TaskStep(i, o))
            => state' = LISTENING]_vars

\* C15: while the state is PROCESSING every audio frame the loop receives is
\* dropped: the cycle that handles it (watchdog check, then
\* handle_audio_chunk) leaves the state, the buffer, the VAD counters and the
\* barge-in counter as they are, sends no event, creates no task and cancels
\* none.
C15_DroppedInProcessing ==
    (state = PROCESSING /\ loop_pc = "recv")
        => \A f \in Frames :
             LET h == HandleAudioChunk(CheckWatchdog(Sess), f)
             IN /\ h.s = Sess
                /\ h.s.events = <<>>
                /\ ~h.spawn
                /\ ~h.fire

\* The loop is receiving while the pipeline of an utterance runs in
\* PROCESSING, and the frames of the caller, who has more to say, arrive.
C15_Witness ==
    /\ state = PROCESSING
    /\ loop_pc = "recv"
    /\ Live(tasks, processing_task)
    /\ tasks[processing_task].pc = "llm"
    /\ ENABLED RecvAudio(LoudFrame)

\* C16: for PLAYBACK_COOLDOWN_MS after a playback_done was handled every
\* audio frame the loop receives is dropped, whatever else holds: the cycle
\* that handles it leaves the state, the buffer, the VAD counters and the
\* barge-in counter as they are and sends no event; a frame received in
\* LISTENING or USER_SPEAKING once the window is over goes to the VAD.
C16_DroppedInCooldown ==
    loop_pc = "recv"
        => \A f \in Frames :
             LET s == CheckWatchdog(Sess)
                 h == HandleAudioChunk(s, f)
             IN /\ InCooldown(Sess)
                     => h.s = Sess /\ ~h.spawn /\ ~h.fire
                /\ (~InCooldown(s) /\ s.state \in {LISTENING, USER_SPEAKING})
                     => h.s = VadBranch(s, f).s

\* The session has been in AI_SPEAKING or GREETING, since it entered it, for
\* longer than the state's deadline.
Due(s) ==
    \/ s.state = AI_SPEAKING /\ s.state_elapsed > WATCHDOG_TIMEOUT_S
    \/ s.state = GREETING /\ s.state_elapsed > GREETING_TIMEOUT_S

\* C17: once the session has been continuously in AI_SPEAKING for more than
\* WATCHDOG_TIMEOUT_S, or in GREETING for more than 120 s, it stays due for
\* as long as it stays in that state, and the next watchdog check (every
\* received message, every idle timeout) sets LISTENING and sends
\* status(listening); a check made before the deadline or in another state
\* changes nothing.
C17_WatchdogResets ==
    [][LET w == CheckWatchdog(Sess)
       IN /\ Due(Sess) => /\ w.state = LISTENING
                          /\ Len(w.events) = 1
                          /\ w.events[1].type = "status_listening"
          /\ ~Due(Sess) => w = Sess
          /\ (Due(Sess) /\ (IdleTimeout \/ RecvOther("pong")))
               => state' = LISTENING
          /\ (Due(Sess) /\ state' = state) => Due(Sess)']_vars

\* The order of the events of a turn, section 5 of the design: b may be sent
\* right after a.
Follows(a, b) ==
    \/ a = "none" /\ b = "status_transcribing"
    \/ a = "status_transcribing" /\ b = "transcript_user"
    \/ a = "transcript_user" /\ b = "status_searching"
    \/ a = "status_searching" /\ b = "status_thinking"
    \/ a \in {"status_thinking", "token"} /\ b \in {"token", "transcript_assistant"}
    \/ a = "transcript_assistant" /\ b = "status_speaking"
    \/ a = "status_speaking" /\ b = "audio"
    \/ a = "audio" /\ b = "perf"

\* The turn gives up: status(listening) in place of the transcript or of the
\* audio, and nothing but perf after it.
GivesUp(a, b) ==
    \/ a \in {"status_transcribing", "status_speaking"} /\ b = "status_listening"
    \/ a = "status_listening" /\ b = "perf"

\* C18: the events a turn sends are, in this order, status(transcribing),
\* transcript(user), status(searching), status(thinking), token events,
\* transcript(assistant), status(speaking), audio, perf, none left out, unless
\* the turn gives up; and the state is AI_SPEAKING when audio is sent.
\* Whatever a running utterance task sends when it is resumed follows, event
\* by event, what it sent last.
C18_TurnEventOrder ==
    \A i \in Slots, o \in Outcomes :
       (Live(tasks, i) /\ tasks[i].kind = "utterance" /\ ~tasks[i].cancel)
         => LET ev == ProcessUtterance(Sess, tasks[i].pc, o).s.events
                seq == <<tasks[i].last>> \o [k \in 1..Len(ev) |-> ev[k].type]
            IN /\ \A k \in 1..(Len(seq) - 1) :
                    Follows(seq[k], seq[k + 1]) \/ GivesUp(seq[k], seq[k + 1])
               /\ \A k \in 1..Len(ev) :
                    ev[k].type = "audio" => ev[k].at.state = AI_SPEAKING

\* A turn has sent its audio event, after status(speaking), on setting
\* AI_SPEAKING.
C18_Witness ==
    /\ step.trigger = "pipeline_audio"
    /\ state = AI_SPEAKING
    /\ \E i \in Slots : /\ tasks[i].kind = "utterance"
                         /\ tasks[i].pc = "send_audio"
                         /\ tasks[i].last = "audio"

\* The events the task in slot i sends when it is resumed with outcome o.
Sent(i, o) ==
    IF tasks[i].cancel THEN <<>>
    ELSE IF tasks[i].kind = "greet"
         THEN AutoGreet(Sess, tasks[i].pc, o).s.events
         ELSE ProcessUtterance(Sess, tasks[i].pc, o).s.events

\* C19: the events of different runs (greeting or turn) never interleave: all
\* the events of a run reach the peer before the first event of the next.
\* Once the run created last (the one _processing_task names) has sent an
\* event, no run created before it that had begun to send sends another.
C19_RunsDoNotInterleave ==
    [][\A i \in Slots, o \in Outcomes :
         (/\ Live(tasks, processing_task)
          /\ tasks[processing_task].last # "none"
          /\ i # processing_task
          /\ Live(tasks, i)
          /\ tasks[i].last # "none"
          /\ TaskStep(i, o))
           => Sent(i, o) = <<>>]_vars

\* C20: when the transcription times out or gives an empty or blank
\* transcript the turn is aborted with state LISTENING and no other effect:
\* the task ends there (no retrieval, generation or synthesis call),
\* status(listening) is all it sends (no transcript event) and
\* conversation_history is as it was.
C20_SttFailureAborts ==
    \A i \in Slots :
       (/\ Live(tasks, i)
        /\ tasks[i].kind = "utterance"
        /\ tasks[i].pc = "stt"
        /\ ~tasks[i].cancel)
         => LET r == ProcessUtterance(Sess, "stt", "failed")
            IN /\ r.pc = "done"
               /\ r.s.state = LISTENING
               /\ r.s.history = history
               /\ Len(r.s.events) = 1
               /\ r.s.events[1].type = "status_listening"
               /\ r.s.audio_buffer = audio_buffer
               /\ r.s.is_speaking = is_speaking
               /\ r.s.is_active = is_active

\* The transcription of the utterance failed: its task has ended, the state
\* is LISTENING and nothing was appended to the history.
C20_Witness ==
    /\ step.trigger = "pipeline_failed"
    /\ state = LISTENING
    /\ \A i \in Slots : tasks[i].kind # "utterance"
    /\ Len(history) <= 2

\* C21: the retrieval never aborts a turn: whether search_context gives a
\* context, gives nothing, fails or exceeds its 5 s, the task goes on to the
\* generation (with a context only in the first case), sends
\* status(thinking) and nothing else, and leaves the state, PROCESSING in
\* particular, and the history as they were.
C21_RetrievalNeverAborts ==
    \A i \in Slots :
       (/\ Live(tasks, i)
        /\ tasks[i].kind = "utterance"
        /\ tasks[i].pc = "rag"
        /\ ~tasks[i].cancel)
         => \A o \in Outcomes :
               LET r == ProcessUtterance(Sess, "rag", o)
               IN /\ r.pc = "llm"
                  /\ r.s.state = state
                  /\ state = PROCESSING => r.s.state = PROCESSING
                  /\ r.s.context = "none" <=> o # "ok"
                  /\ Len(r.s.events) = 1
                  /\ r.s.events[1].type = "status_thinking"
                  /\ r.s.history = history
                  /\ r.s.is_active = is_active

\* The retrieval of a turn has returned: the task waits for the generation
\* and the session is still in PROCESSING.
C21_Witness ==
    /\ state = PROCESSING
    /\ \E i \in Slots : /\ tasks[i].kind = "utterance"
                         /\ tasks[i].pc = "llm"
                         /\ tasks[i].last = "status_thinking"
                         /\ ~tasks[i].cancel

\* C22: the generation never aborts a turn and never leaves it without a
\* reply: for a turn that is not cancelled (its transcript was not blank, or
\* it would not have come this far) in a session that is active, whatever the
\* generation gives, a transcript(assistant) event with a text that is not
\* empty is sent and the task goes on to the synthesis.
C22_GenerationAlwaysReplies ==
    \A i \in Slots :
       (/\ Live(tasks, i)
        /\ tasks[i].kind = "utterance"
        /\ tasks[i].pc = "llm"
        /\ ~tasks[i].cancel
        /\ is_active)
         => \A o \in Outcomes :
               LET r == ProcessUtterance(Sess, "llm", o)
               IN /\ r.pc = "tts"
                  /\ \E k \in 1..Len(r.s.events) :
                        r.s.events[k].type = "transcript_assistant"
                  /\ r.s.reply \notin {"", "unset"}

\* The awaits of a turn in the order of the code, and the place of one in it.
StageOrder ==
    <<"start", "stt", "rag", "llm", "tts", "tts_retry", "send_audio",
      "send_perf", "done">>
Rank(pc) == CHOOSE k \in 1..Len(StageOrder) : StageOrder[k] = pc

\* C23: the synthesis is retried exactly once: a turn only moves forward
\* through its awaits, so each is reached at most once; the first call of
\* rest_tts is made on leaving the generation, the second if and only if the
\* first gave no audio (timeout, failure or empty result), and after the
\* second there is no other.
C23_SynthesisRetriedOnce ==
    \A i \in Slots :
       (/\ Live(tasks, i)
        /\ tasks[i].kind = "utterance"
        /\ ~tasks[i].cancel)
         => \A o \in Outcomes :
               LET pc == tasks[i].pc
                   r == ProcessUtterance(Sess, pc, o)
               IN /\ Rank(r.pc) > Rank(pc)
                  /\ r.pc = "tts" => pc = "llm"
                  /\ r.pc = "tts_retry" <=> (pc = "tts" /\ o # "ok")
                  /\ pc = "tts_retry" => r.pc \in {"send_audio", "send_perf"}

\* The first synthesis of a turn gave no audio and the second is under way.
C23_Witness ==
    \E i \in Slots : /\ tasks[i].kind = "utterance"
                      /\ tasks[i].pc = "tts_retry"
                      /\ tasks[i].last = "status_speaking"
                      /\ ~tasks[i].cancel

\* The types of the events of a step.
Types(ev) == [k \in 1..Len(ev) |-> ev[k].type]

\* C24: when the synthesis gives no audio on both attempts, the turn has
\* already sent transcript(assistant) (it came to the synthesis by the step
\* that sent it, followed by status(speaking) only), it sends
\* status(listening) and no audio event, the state is LISTENING, and what is
\* left of the turn (the perf event) does not change the state again.
C24_SynthesisFailedTwice ==
    \A i \in Slots :
       (/\ Live(tasks, i)
        /\ tasks[i].kind = "utterance"
        /\ ~tasks[i].cancel)
         => /\ tasks[i].pc = "llm"
                 => \A o \in Outcomes :
                       LET r == ProcessUtterance(Sess, "llm", o)
                           n == Len(r.s.events)
                       IN r.pc = "tts"
                            => /\ n >= 2
                               /\ r.s.events[n - 1].type = "transcript_assistant"
                               /\ r.s.events[n].type = "status_speaking"
            /\ tasks[i].pc \in {"tts", "tts_retry"}
                 => tasks[i].last = "status_speaking"
            /\ tasks[i].pc = "tts_retry"
                 => \A o \in Outcomes \ {"ok"} :
                       LET r == ProcessUtterance(Sess, "tts_retry", o)
                       IN /\ r.s.state = LISTENING
                          /\ Types(r.s.events) = <<"status_listening", "perf">>
                          /\ r.pc = "send_perf"
                          /\ \A o2 \in Outcomes :
                                LET e == ProcessUtterance(
                                           [r.s EXCEPT !.events = <<>>], r.pc, o2)
                                IN /\ e.pc = "done"
                                   /\ e.s.state = LISTENING
                                   /\ e.s.events = <<>>

\* Both syntheses of a turn gave no audio: the state is LISTENING by the
\* pipeline's failure and the turn has sent its perf event.
C24_Witness ==
    /\ step.trigger = "pipeline_failed"
    /\ state = LISTENING
    /\ \E i \in Slots : /\ tasks[i].kind = "utterance"
                         /\ tasks[i].pc = "send_perf"
                         /\ tasks[i].last = "perf"

\* The awaits of a coroutine from which an exception reaches its handler.
Uncovered(kind) ==
    IF kind = "greet" THEN {"llm", "tts"} ELSE {"stt", "rag", "tts"}

\* C25: an unexpected exception raised inside a turn, the greeting included,
\* is caught by the coroutine: the task ends, the state is LISTENING, an error
\* event is sent to the peer, and the session stays as it was otherwise
\* (is_active, and the message loop, which a task never touches).
C25_ExceptionCaught ==
    \A i \in Slots :
       (/\ Live(tasks, i)
        /\ ~tasks[i].cancel
        /\ tasks[i].pc \in Uncovered(tasks[i].kind))
         => LET r == IF tasks[i].kind = "greet"
                     THEN AutoGreetRaised(Sess, tasks[i].pc)
                     ELSE ProcessUtteranceRaised(Sess, tasks[i].pc)
            IN /\ r.pc = "done"
               /\ r.s.state = LISTENING
               /\ \E k \in 1..Len(r.s.events) : r.s.events[k].type = "error"
               /\ r.s.is_active = is_active
               /\ r.s.history = history

\* C26: a malformed inbound message (a text that is not JSON, audio data
\* that is not base64, a PCM chunk of an odd number of bytes) is not
\* propagated as a crash: the message loop keeps running, the session stays
\* active and registered, and the state is what the watchdog check of the
\* cycle left.
C26_MalformedIgnored ==
    [][\A kind \in Malformed :
         RecvMalformed(kind)
           => /\ loop_pc' = "recv"
              /\ is_active'
              /\ state' = CheckWatchdog(Sess).state]_vars

\* C27: on teardown a pipeline task that is still running is cancelled and
\* its end is awaited before the session leaves the registry and the handler
\* returns: once the handler has returned, the task it cancelled is no longer
\* alive.
C27_TeardownAwaitsTask ==
    loop_pc = "closed" => ~Live(tasks, processing_task)

\* The frames of the scenario of section 8 of the design: full frames with
\* these RMS values.
ScenarioRms == <<50, 50, 250, 260, 270, 60, 60, 60, 60>>
ScenarioFrame(k) == [rms |-> ScenarioRms[k], bytes |-> FullFrameBytes]

\* The first k frames of the scenario received one after the other from
\* session s, each as the loop handles an audio message (the watchdog, then
\* handle_audio_chunk): the session after them with all the events sent,
\* and, frame by frame, the state, the events sent so far, whether a task
\* was created and whether a barge-in fired.
RECURSIVE Feed(_, _)
Feed(s, k) ==
    IF k = 0
    THEN [s |-> s, states |-> <<>>, sent |-> <<>>, spawned |-> <<>>, fired |-> <<>>]
    ELSE LET p == Feed(s, k - 1)
             r == HandleAudioChunk(CheckWatchdog(p.s), ScenarioFrame(k))
         IN [s |-> r.s,
             states |-> Append(p.states, r.s.state),
             sent |-> Append(p.sent, Types(r.s.events)),
             spawned |-> Append(p.spawned, r.spawn),
             fired |-> Append(p.fired, r.fire)]

Marks == {".", "!", "?", "danda"}

\* The positions (from 0) below limit where the text has a character of cs
\* and that lie beyond limit / 2.
LatePositions(cs) ==
    {p \in 0..(limit - 1) : p < Len(text) /\ text[p + 1] \in cs /\ 2 * p > limit}

\* C29: _smart_truncate(text, limit) returns the text unchanged when it is not
\* longer than limit; otherwise it cuts just after the last sentence mark of
\* text[:limit] if that mark lies beyond position limit / 2, else at the last
\* space of text[:limit] if that lies beyond limit / 2, adding "...", else it
\* returns text[:limit] followed by "...".
C29_SmartTruncate ==
    tts_text # <<>>
      => IF Len(text) <= limit
         THEN tts_text = text
         ELSE IF LatePositions(Marks) # {}
              THEN tts_text = SubSeq(text, 1, Max(LatePositions(Marks)) + 1)
              ELSE IF LatePositions({" "}) # {}
                   THEN tts_text = SubSeq(text, 1, Max(LatePositions({" "})))
                                     \o Ellipsis
                   ELSE tts_text = SubSeq(text, 1, limit) \o Ellipsis

\* A text longer than the limit, with no sentence mark late enough, was cut
\* at its last space and given the dots.
C29_Witness ==
    /\ Len(text) > limit
    /\ LatePositions(Marks) = {}
    /\ LatePositions({" "}) # {}
    /\ tts_text = SubSeq(text, 1, Max(LatePositions({" "}))) \o Ellipsis

\* C30: re-entering the current state is a no-op: a step whose _set_state
\* call asks for the state the session is already in (playback_done in
\* LISTENING, speech_start in USER_SPEAKING, a second task reaching
\* AI_SPEAKING) leaves the state, the time of its entry, the buffer and the
\* VAD counters as they were.
C30_ReentryNoOp ==
    [][(step'.trigger # "none" /\ step'.from = state /\ state' = state)
         => UNCHANGED <<state, state_elapsed, audio_buffer, is_speaking,
                        speech_frames, silence_frames>>]_vars

\* The events that tell the peer of a stage or of an error.
StatusOrError ==
    {"status_transcribing", "status_searching", "status_thinking",
     "status_speaking", "status_listening", "error"}

Tells(ev) == \E k \in 1..Len(ev) : ev[k].type \in StatusOrError

\* The resumption of task i with outcome o: what it sends and where it stops.
Resumed(i, o) ==
    IF tasks[i].kind = "greet"
    THEN AutoGreet(Sess, tasks[i].pc, o)
    ELSE ProcessUtterance(Sess, tasks[i].pc, o)

\* A turn that comes to nothing tells the peer: the step in which a task that
\* has not synthesized audio gives up sends a status or an error event; a
\* task that is cancelled is awaited by a barge-in, which sends a status.
GivingUpTells ==
    \A i \in Slots :
       /\ (Live(tasks, i) /\ ~tasks[i].cancel
             /\ tasks[i].pc \notin {"start", "send_audio", "send_perf"})
            => \A o \in Awaited(tasks[i]) :
                  Resumed(i, o).pc \in {"done", "send_perf"}
                     => Tells(Resumed(i, o).s.events)
       /\ (Live(tasks, i) /\ tasks[i].cancel)
            => /\ loop_pc = "interrupt"
               /\ Tells(BargeInFinish(Sess, pending).events)

\* C31: the session never silently hangs: while the loop is running (so that
\* watchdog checks keep occurring) and every backend call comes back, a
\* session in GREETING, PROCESSING or AI_SPEAKING comes to LISTENING or
\* USER_SPEAKING, a turn that ends without audio tells the peer with a status
\* or an error event, and the barge-in that waits for a cancelled turn goes
\* on to send its own.
C31_NeverHangs ==
    /\ (state \in {GREETING, PROCESSING, AI_SPEAKING})
          ~> (state \in {LISTENING, USER_SPEAKING} \/ loop_pc = "closed")
    /\ [](loop_pc # "closed" => GivingUpTells)
    /\ (loop_pc = "interrupt") ~> (loop_pc # "interrupt")

\* The watchdog has forced a session that was left in AI_SPEAKING back to
\* LISTENING.
C31_Witness ==
    /\ state = LISTENING
    /\ step.from = AI_SPEAKING
    /\ step.trigger = "watchdog"
    /\ loop_pc = "recv"

\* C32: with no backend credential configured a turn fails at once and
\* visibly: the transcription call is not made, and the turn ends with an
\* error event to the peer, not with a silent return to LISTENING.
C32_MissingCredentialLoud ==
    \A i \in Slots :
       (/\ Live(tasks, i)
        /\ tasks[i].kind = "utterance"
        /\ tasks[i].pc = "stt"
        /\ ~tasks[i].cancel)
         => \A a \in BackendAnswers(NoCredential) :
               LET c == RestStt(NoCredential, a)
                   r == ProcessUtterance(Sess, "stt", c.outcome)
               IN /\ ~c.called
                  /\ r.pc = "done"
                  /\ \E k \in 1..Len(r.s.events) : r.s.events[k].type = "error"

\* C33: in AI_SPEAKING and GREETING the VAD is bypassed: a frame that does
\* not complete a barge-in leaves the state, its entry time, the buffer, the
\* speaking flag, speech_frames and silence_frames (and everything else but
\* the barge-in counter) as they were, sends no event, asks the VAD nothing
\* and starts no task; the counter goes up by one or back to 0.
C33_VadBypassed ==
    state \in {AI_SPEAKING, GREETING}
      => \A f \in Frames :
            LET r == HandleAudioChunk(Sess, f)
            IN ~r.fire
                 => /\ r.s = [Sess EXCEPT !.barge_in_frames = r.s.barge_in_frames]
                    /\ r.s.barge_in_frames \in {0, barge_in_frames + 1}
                    /\ r.s.events = <<>>
                    /\ r.s.vad = "none"
                    /\ ~r.spawn

\* A loud frame was counted towards a barge-in during playback, and nothing
\* else of the session moved: the VAD is idle and the buffer empty.
C33_Witness ==
    /\ state = AI_SPEAKING
    /\ barge_in_frames = MIN_BARGE_IN_FRAMES - 1
    /\ step = NoStep
    /\ ~is_speaking
    /\ audio_buffer = 0

\* A history of complete pairs: user, assistant, user, assistant, ...
Paired(h) ==
    /\ Len(h) % 2 = 0
    /\ \A k \in 1..Len(h) : h[k] = IF k % 2 = 1 THEN "user" ELSE "assistant"

\* C34: the conversation history is made of complete pairs wherever the
\* pipeline is suspended or has finished: its length is even and it
\* alternates user, assistant from a user entry on; a resumption of a task
\* leaves it as it was or in pairs again, and a turn that is cancelled, or
\* that ends before its history update (no transcript, the session no longer
\* active), leaves it exactly as it was.
C34_HistoryInPairs ==
    /\ Paired(history)
    /\ \A i \in Slots :
          Live(tasks, i)
            => /\ tasks[i].kind = "utterance"
                    => ProcessUtteranceCancelled(Sess, tasks[i].pc).history = history
               /\ tasks[i].kind = "greet"
                    => AutoGreetCancelled(Sess, tasks[i].pc).history = history
               /\ \A o \in Awaited(tasks[i]) :
                     \A h \in {Resumed(i, o).s.history} :
                        /\ Paired(h)
                        /\ (tasks[i].kind = "utterance"
                              /\ tasks[i].pc \in {"start", "stt", "rag", "llm", "tts"})
                             => h = history

\* A turn was cancelled after the greeting had been recorded: the history is
\* the greeting's pair, as it was.
C34_Witness ==
    /\ step.trigger = "cancelled"
    /\ history = <<"user", "assistant">>

\* What the loop does with an audio message, short of the suspension in
\* _interrupt_ai: the watchdog check of the cycle, then handle_audio_chunk.
Handled(f) == HandleAudioChunk(CheckWatchdog(Sess), f)

\* C35: brief energy dips do not end an utterance, and the utterance is
\* buffered whole.  While the speaking flag is set, a frame at or below the
\* speech threshold that does not complete the silence window and a frame
\* above the threshold both give speech_continue, send nothing, leave the
\* state alone and are appended to the buffer, the loud one resetting the
\* silence counter; the frame that completes the window is not appended, and
\* the buffer the task gets is the one built up to it.
C35_DipsTolerated ==
    is_speaking
      => \A f \in Frames :
            \A r \in {Handled(f)} :
               IF f.rms <= SPEECH_THRESHOLD
                  /\ (silence_frames + 1) * FRAME_DURATION_MS >= SILENCE_DURATION_MS
               THEN /\ r.s.vad \in {"speech_end", "silence"}
                    /\ DetectSpeech(Sess, f).s.audio_buffer
                         = IF r.s.vad = "speech_end" THEN audio_buffer ELSE 0
                    /\ r.spawn <=> (r.s.vad = "speech_end"
                                      /\ audio_buffer >= MIN_AUDIO_BYTES)
               ELSE /\ r.s.vad = "speech_continue"
                    /\ r.s.events = <<>>
                    /\ r.s.state = state
                    /\ r.s.is_speaking
                    /\ r.s.audio_buffer = Extend(audio_buffer, f)
                    /\ r.s.silence_frames
                         = IF f.rms > SPEECH_THRESHOLD THEN 0 ELSE silence_frames + 1

\* C36: on speech_end vad(speaking=false) is sent, and nothing else; if the
\* buffer holds less than MIN_AUDIO_BYTES no task is started, the buffer is
\* cleared and the state becomes LISTENING; otherwise the state becomes
\* PROCESSING, the buffer is cleared and exactly one task, for the utterance,
\* is created and becomes the session's processing task.
C36_ByteGate ==
    [][step'.vad = "speech_end"
         => /\ \A f \in Frames :
                  Handled(f).s.vad = "speech_end"
                    => Types(Handled(f).s.events) = <<"vad_false">>
            /\ audio_buffer' = 0
            /\ IF audio_buffer < MIN_AUDIO_BYTES
               THEN /\ state' = LISTENING
                    /\ tasks' = tasks
                    /\ processing_task' = processing_task
               ELSE /\ state' = PROCESSING
                    /\ ~Live(tasks, processing_task')
                    /\ tasks' = [tasks EXCEPT ![processing_task']
                                                = NewTask("utterance")]]_vars

\* An utterance long enough in frames and too short in bytes has ended: no
\* task was created for it.
C36_Witness ==
    /\ step.vad = "speech_end"
    /\ step.trigger = "too_short"
    /\ state = LISTENING
    /\ audio_buffer = 0
    /\ \A i \in Slots : tasks[i].kind # "utterance"

\* C37: when the watchdog forces AI_SPEAKING or GREETING back to LISTENING no
\* cooldown window is open after the reset, and the audio frame of that loop
\* cycle is given to the VAD, not dropped.
C37_WatchdogClearsCooldown ==
    \A w \in {CheckWatchdog(Sess)} :
       w.trigger = "watchdog"
         => /\ w.state = LISTENING
            /\ ~InCooldown(w)
            /\ \A f \in Frames : HandleAudioChunk(w, f).s.vad # "none"

\* C38: the speech-duration counter never carries over between utterances:
\* whenever the speaking flag is false speech_frames is 0; a speech_start
\* leaves it at 1, a barge-in sets it to 1, and while speaking it goes up by
\* one with each frame above the speech threshold that the VAD is given and
\* with nothing else.
C38_SpeechFramesPerUtterance ==
    /\ ~is_speaking => speech_frames = 0
    /\ \A f \in Frames :
          \A r \in {Handled(f)} :
             /\ r.s.vad = "speech_start" => r.s.speech_frames = 1
             /\ r.s.vad = "speech_continue"
                  => r.s.speech_frames
                       = speech_frames + (IF f.rms > SPEECH_THRESHOLD THEN 1 ELSE 0)
             /\ r.s.vad = "none" /\ ~r.fire => r.s.speech_frames = speech_frames
             /\ r.fire => BargeInFinish(r.s, f).speech_frames = 1
    /\ HandlePlaybackDone(Sess).speech_frames = 0

\* An utterance has ended and its count of speech frames is gone.
C38_Witness ==
    /\ step.vad = "speech_end"
    /\ ~is_speaking
    /\ speech_frames = 0
    /\ state = PROCESSING

\* C39: a turn whose synthesis gives no audio on both attempts still appends
\* its (user, assistant) pair to the history, under the cap, and still sends
\* its perf event, as the turn does when the second synthesis succeeds; what
\* is missing is the audio event and the change to AI_SPEAKING, in whose
\* place come LISTENING and status(listening).  On a history that is at the
\* cap the oldest pair makes room for the turn's.
C39_FailedSynthesisRecorded ==
    \A i \in Slots :
       (/\ Live(tasks, i)
        /\ tasks[i].kind = "utterance"
        /\ tasks[i].pc = "tts_retry"
        /\ ~tasks[i].cancel)
         => \A o \in Outcomes \ {"ok"} :
               LET failed == ProcessUtterance(Sess, "tts_retry", o)
                   spoken == ProcessUtterance(Sess, "tts_retry", "ok")
                   after == ProcessUtterance(spoken.s, "send_audio", "ok")
               IN /\ failed.s.history = AppendTurnCapped(history)
                  /\ failed.s.history = after.s.history
                  /\ Types(after.s.events) = <<"audio", "perf">>
                  /\ Types(failed.s.events) = <<"status_listening", "perf">>
                  /\ failed.pc = after.pc
                  /\ after.s.state = AI_SPEAKING /\ failed.s.state = LISTENING
                  /\ [failed.s EXCEPT !.state = AI_SPEAKING, !.events = <<>>,
                                      !.trigger = "pipeline_audio"]
                       = [after.s EXCEPT !.events = <<>>]
                  /\ \A full \in {[k \in 1..MAX_HISTORY_ENTRIES |->
                                      IF k % 2 = 1 THEN "user" ELSE "assistant"]} :
                        ProcessUtterance([Sess EXCEPT !.history = full],
                                         "tts_retry", o).s.history = full

\* Both syntheses of a turn failed and the turn is in the history, after the
\* greeting; the task is at the send of its perf event.
C39_Witness ==
    /\ step.trigger = "pipeline_failed"
    /\ history = <<"user", "assistant", "user", "assistant">>
    /\ \E i \in Slots : /\ tasks[i].kind = "utterance"
                         /\ tasks[i].pc = "send_perf"
                         /\ tasks[i].last = "perf"

\* C40: while the speaking flag is set the silence counted so far is below
\* the silence window at the end of every step (silence_frames x
\* FRAME_DURATION_MS < SILENCE_DURATION_MS), and an utterance begins, by a
\* speech_start or by a barge-in, with silence_frames at 0, whatever was
\* counted while the session was idle.
C40_SilenceBelowWindow ==
    /\ is_speaking => silence_frames * FRAME_DURATION_MS < SILENCE_DURATION_MS
    /\ \A f \in Frames :
          \A r \in {Handled(f)} :
             /\ r.s.vad = "speech_start"
                  => r.s.is_speaking /\ r.s.silence_frames = 0
             /\ r.fire => /\ BargeInFinish(r.s, f).is_speaking
                          /\ BargeInFinish(r.s, f).silence_frames = 0

\* The user is speaking and has paused for as long as the window allows
\* without ending the utterance.
C40_Witness ==
    /\ is_speaking
    /\ state = USER_SPEAKING
    /\ step.vad = "speech_continue"
    /\ (silence_frames + 1) * FRAME_DURATION_MS >= SILENCE_DURATION_MS

====
